---- MODULE Spec2Model ----
(***************************************************************************)
(* Tick host (crates/host), match manager (crates/server/match_handle.rs)  *)
(* and match loop driver (tick_loop.rs) of agent-gym, with the counter     *)
(* game of crates/server/tests/integration.rs as the hosted game.          *)
(***************************************************************************)
EXTENDS Integers, Sequences, FiniteSets, TLC

\* ------------------------------------------------------------------ bounds
MaxTick == 4
MaxPlayers == 2
MaxSessions == 2
MaxActions == 2
DecisionStride == 2
MaxAmount == 2
Target == 2
EventCapacity == 3
MaxMatches == 2
MaxMatchId == 4
GridWidth == 3
GridHeight == 2
TdMaxTick == 30
TdSubmitUntil == 2
MaxSecs == 4000
MaxRate == 1000000

Callers == {1, 2}
Creators == {1, 2}
Ticks == 0..MaxTick
Amounts == 1..MaxAmount
Tokens == 1..MaxSessions

\* ----------------------------------------------------------------- helpers
EmptyMap == << >>

MapInsert(m, k, v) == [x \in (DOMAIN m) \cup {k} |-> IF x = k THEN v ELSE m[x]]

MapRemove(m, k) == [x \in (DOMAIN m) \ {k} |-> m[x]]

Max(a, b) == IF a >= b THEN a ELSE b

\* F of the value of e: e is evaluated once, however often F mentions its argument
Then(e, F(_)) == CHOOSE v \in {F(x) : x \in {e}} : TRUE

\* ------------------------------------------- the tower-defense game (TdGame)
\* u32::MAX in the distance field: larger than the cost of any path on the grid
DistMax == 1000000

\* floor(base * (num / 100)^exp * times), the economy formulas of TdConfig
RECURSIVE Pow(_, _)
Pow(b, e) == IF e = 0 THEN 1 ELSE b * Pow(b, e - 1)

ScaledFloor(base, num, exp, times) == (base * Pow(num, exp) * times) \div Pow(100, exp)

TdConfig_duration_to_ticks(config, millis) == (millis * config.tick_hz) \div 1000

TdConfig_mob_hp(config, wave, player_count) == ScaledFloor(10, 115, wave, player_count)

TdConfig_wave_size(config, wave, player_count) == ScaledFloor(8, 108, wave, player_count)

TdConfig_tower_damage(config, upgrade_level) ==
    ScaledFloor(config.basic_spec.damage, 115, upgrade_level, 1)

TdConfig_build_cost(config, wave) == ScaledFloor(config.basic_spec.cost, 112, wave, 1)

TdConfig_upgrade_cost(config, current_level) == ScaledFloor(20, 120, current_level + 1, 1)

TdConfig_gold_start(config, player_count) == 50 + 30 * (player_count - 1)

TdConfig_gold_per_wave(config, wave, player_count) == ScaledFloor(25, 112, wave, player_count)

TdConfig_gold_per_kill(config, wave) == ScaledFloor(1, 108, wave, 1)

\* Speed::from_cells_per_sec(2).to_tick_interval(tick_hz)
MoveInterval(config) == config.tick_hz \div 2

\* SlotMap: slots are reused last-freed-first, a key is a slot index with the version
\* the slot had when the value was inserted, iteration is in slot order
Vacant == [vacant |-> TRUE]

SlotMap_new == [slots |-> << >>, free |-> << >>]

SlotMap_insert(sm, v) ==
    IF sm.free # << >>
    THEN LET i == Head(sm.free)
         IN [map |-> [sm EXCEPT !.slots[i].value = v, !.free = Tail(@)],
             key |-> [idx |-> i, version |-> sm.slots[i].version]]
    ELSE LET i == Len(sm.slots) + 1
         IN [map |-> [sm EXCEPT !.slots = Append(@, [version |-> 1, value |-> v])],
             key |-> [idx |-> i, version |-> 1]]

SlotMap_contains(sm, k) ==
    /\ k.idx \in DOMAIN sm.slots
    /\ sm.slots[k.idx].version = k.version
    /\ sm.slots[k.idx].value # Vacant

SlotMap_get(sm, k) == sm.slots[k.idx].value

SlotMap_set(sm, k, v) == [sm EXCEPT !.slots[k.idx].value = v]

SlotMap_remove(sm, k) ==
    IF SlotMap_contains(sm, k)
    THEN [sm EXCEPT !.slots[k.idx] = [version |-> @.version + 1, value |-> Vacant],
                    !.free = << k.idx >> \o @]
    ELSE sm

\* the keys of the occupied slots in iteration order
RECURSIVE KeysFrom(_, _)
KeysFrom(sm, i) ==
    IF i > Len(sm.slots) THEN << >>
    ELSE (IF sm.slots[i].value # Vacant
          THEN << [idx |-> i, version |-> sm.slots[i].version] >> ELSE << >>)
         \o KeysFrom(sm, i + 1)

SlotMap_keys(sm) == KeysFrom(sm, 1)

SlotMap_is_empty(sm) == SlotMap_keys(sm) = << >>

\* CellState and Grid
Empty == [cell |-> "Empty"]
Building == [cell |-> "Building"]
Tower(id) == [cell |-> "Tower", id |-> id]

CellState_is_blocked(c) == c # Empty

Grid_new(width, height) ==
    [width |-> width, height |-> height, cells |-> [i \in 0..(width * height - 1) |-> Empty]]

Grid_idx(grid, x, y) == y * grid.width + x

Grid_in_bounds(grid, x, y) == x < grid.width /\ y < grid.height

Grid_get(grid, x, y) == grid.cells[Grid_idx(grid, x, y)]

Grid_set(grid, x, y, c) == [grid EXCEPT !.cells[Grid_idx(grid, x, y)] = c]

Grid_is_blocked_idx(grid, idx) == CellState_is_blocked(grid.cells[idx])

CellX(grid, idx) == idx % grid.width
CellY(grid, idx) == idx \div grid.width

Pause(until_tick) == [phase |-> "Pause", until_tick |-> until_tick]
InWave(spawned, wave_size, next_spawn_tick) ==
    [phase |-> "InWave", spawned |-> spawned, wave_size |-> wave_size,
     next_spawn_tick |-> next_spawn_tick]

TdState_new(config) ==
    [config |-> config,
     tick |-> 0,
     towers |-> SlotMap_new,
     mobs |-> SlotMap_new,
     grid |-> Grid_new(config.width, config.height),
     build_queue |-> << >>,
     current_wave |-> 0,
     phase |-> Pause(TdConfig_duration_to_ticks(config, config.inter_wave_pause)),
     leaks |-> 0,
     dist |-> [i \in 0..(config.width * config.height - 1) |-> DistMax],
     gold |-> TdConfig_gold_start(config, config.player_count)]

\* ---- systems: each returns the new state with the events it pushed
Out(st, ev) == [st |-> st, ev |-> ev]

\* variant: the build is charged without the gold test
try_queue_build_Unchecked(st, x, y, kind, tick, player_id) ==
    IF ~Grid_in_bounds(st.grid, x, y)
    THEN Out(st, << [type |-> "BuildRejected", x |-> x, y |-> y, reason |-> "out of bounds"] >>)
    ELSE IF Grid_is_blocked_idx(st.grid, Grid_idx(st.grid, x, y))
    THEN Out(st, << [type |-> "BuildRejected", x |-> x, y |-> y, reason |-> "cell is blocked"] >>)
    ELSE LET cost == TdConfig_build_cost(st.config, st.current_wave)
             complete_tick == tick + TdConfig_duration_to_ticks(st.config, st.config.build_time)
         IN Out([st EXCEPT !.gold = @ - cost,
                           !.grid = Grid_set(@, x, y, Building),
                           !.build_queue = Append(@, [x |-> x, y |-> y, kind |-> kind,
                                                      complete_tick |-> complete_tick,
                                                      player_id |-> player_id])],
                << [type |-> "BuildQueued", x |-> x, y |-> y, kind |-> kind] >>)

try_queue_build(st, x, y, kind, tick, player_id) ==
    IF ~Grid_in_bounds(st.grid, x, y)
    THEN Out(st, << [type |-> "BuildRejected", x |-> x, y |-> y, reason |-> "out of bounds"] >>)
    ELSE IF Grid_is_blocked_idx(st.grid, Grid_idx(st.grid, x, y))
    THEN Out(st, << [type |-> "BuildRejected", x |-> x, y |-> y, reason |-> "cell is blocked"] >>)
    ELSE LET cost == TdConfig_build_cost(st.config, st.current_wave)
             complete_tick == tick + TdConfig_duration_to_ticks(st.config, st.config.build_time)
         IN IF st.gold < cost
            THEN Out(st, << [type |-> "InsufficientGold", cost |-> cost, have |-> st.gold] >>)
            ELSE Out([st EXCEPT !.gold = @ - cost,
                                !.grid = Grid_set(@, x, y, Building),
                                !.build_queue = Append(@, [x |-> x, y |-> y, kind |-> kind,
                                                           complete_tick |-> complete_tick,
                                                           player_id |-> player_id])],
                     << [type |-> "BuildQueued", x |-> x, y |-> y, kind |-> kind] >>)

try_upgrade_tower(st, tower_id) ==
    IF ~SlotMap_contains(st.towers, tower_id) THEN Out(st, << >>)
    ELSE LET tower == SlotMap_get(st.towers, tower_id)
             cost == TdConfig_upgrade_cost(st.config, tower.upgrade_level)
         IN IF st.gold < cost
            THEN Out(st, << [type |-> "InsufficientGold", cost |-> cost, have |-> st.gold] >>)
            ELSE Out([st EXCEPT !.gold = @ - cost,
                                !.towers = SlotMap_set(@, tower_id,
                                              [tower EXCEPT !.upgrade_level = @ + 1])],
                     << [type |-> "TowerUpgraded", id |-> tower_id,
                         new_level |-> tower.upgrade_level + 1] >>)

\* process_builds: placed is the towers_placed result
\* variant: a build is completed one tick after it is due
RECURSIVE process_builds_Late(_, _, _, _)
process_builds_Late(st, tick, ev, placed) ==
    IF st.build_queue # << >> /\ tick > Head(st.build_queue).complete_tick
    THEN LET build == Head(st.build_queue)
             spec == st.config.basic_spec
             tower == [x |-> build.x, y |-> build.y, kind |-> build.kind, hp |-> spec.hp,
                       max_hp |-> spec.hp, next_fire_tick |-> tick,
                       player_id |-> build.player_id, upgrade_level |-> 0]
             ins == SlotMap_insert(st.towers, tower)
         IN process_builds_Late([st EXCEPT !.build_queue = Tail(@),
                                      !.towers = ins.map,
                                      !.grid = Grid_set(@, build.x, build.y, Tower(ins.key))],
                           tick,
                           Append(ev, [type |-> "TowerPlaced", id |-> ins.key, x |-> build.x,
                                       y |-> build.y, kind |-> build.kind]),
                           TRUE)
    ELSE [st |-> st, ev |-> ev, towers_placed |-> placed]

RECURSIVE process_builds(_, _, _, _)
process_builds(st, tick, ev, placed) ==
    IF st.build_queue # << >> /\ tick >= Head(st.build_queue).complete_tick
    THEN LET build == Head(st.build_queue)
             spec == st.config.basic_spec
             tower == [x |-> build.x, y |-> build.y, kind |-> build.kind, hp |-> spec.hp,
                       max_hp |-> spec.hp, next_fire_tick |-> tick,
                       player_id |-> build.player_id, upgrade_level |-> 0]
             ins == SlotMap_insert(st.towers, tower)
         IN process_builds([st EXCEPT !.build_queue = Tail(@),
                                      !.towers = ins.map,
                                      !.grid = Grid_set(@, build.x, build.y, Tower(ins.key))],
                           tick,
                           Append(ev, [type |-> "TowerPlaced", id |-> ins.key, x |-> build.x,
                                       y |-> build.y, kind |-> build.kind]),
                           TRUE)
    ELSE [st |-> st, ev |-> ev, towers_placed |-> placed]

\* ---- pathing
\* NEIGHBORS in their fixed order N, NE, E, SE, S, SW, W, NW
NEIGHBORS ==
    << << 0, -1 >>, << 1, -1 >>, << 1, 0 >>, << 1, 1 >>,
       << 0, 1 >>, << -1, 1 >>, << -1, 0 >>, << -1, -1 >> >>

CARDINAL_COST == 10
DIAGONAL_COST == 14

\* i is the position in NEIGHBORS counted from one
is_diagonal(i) == (i - 1) % 2 = 1

neighbor_cost(i) == IF is_diagonal(i) THEN DIAGONAL_COST ELSE CARDINAL_COST

\* variant: one free flanking cell is enough
diagonal_allowed_EitherFree(grid, x, y, dx, dy) ==
    \/ ~Grid_is_blocked_idx(grid, Grid_idx(grid, x + dx, y))
    \/ ~Grid_is_blocked_idx(grid, Grid_idx(grid, x, y + dy))

diagonal_allowed(grid, x, y, dx, dy) ==
    /\ ~Grid_is_blocked_idx(grid, Grid_idx(grid, x + dx, y))
    /\ ~Grid_is_blocked_idx(grid, Grid_idx(grid, x, y + dy))

OutOfGrid(grid, nx, ny) == nx < 0 \/ ny < 0 \/ nx >= grid.width \/ ny >= grid.height

\* the least entry of the heap: Reverse((d, idx)) pops the smallest pair
HeapMin(heap) ==
    CHOOSE e \in heap : \A f \in heap : e[1] < f[1] \/ (e[1] = f[1] /\ e[2] <= f[2])

\* the loop over NEIGHBORS for the popped entry (d, idx), from neighbour i on
RECURSIVE RelaxFrom(_, _, _, _, _, _)
RelaxFrom(grid, dist, heap, d, idx, i) ==
    IF i > Len(NEIGHBORS) THEN [dist |-> dist, heap |-> heap]
    ELSE LET x == CellX(grid, idx)
             y == CellY(grid, idx)
             dx == NEIGHBORS[i][1]
             dy == NEIGHBORS[i][2]
             nx == x + dx
             ny == y + dy
             nidx == Grid_idx(grid, nx, ny)
             new_dist == d + neighbor_cost(i)
         IN IF OutOfGrid(grid, nx, ny) THEN RelaxFrom(grid, dist, heap, d, idx, i + 1)
            ELSE IF Grid_is_blocked_idx(grid, nidx) THEN RelaxFrom(grid, dist, heap, d, idx, i + 1)
            ELSE IF is_diagonal(i) /\ ~diagonal_allowed(grid, x, y, dx, dy)
                 THEN RelaxFrom(grid, dist, heap, d, idx, i + 1)
            ELSE IF new_dist < dist[nidx]
                 THEN RelaxFrom(grid, [dist EXCEPT ![nidx] = new_dist],
                                heap \cup {<< new_dist, nidx >>}, d, idx, i + 1)
            ELSE RelaxFrom(grid, dist, heap, d, idx, i + 1)

RECURSIVE DijkstraLoop(_, _, _)
DijkstraLoop(grid, dist, heap) ==
    IF heap = {} THEN dist
    ELSE LET e == HeapMin(heap)
             rest == heap \ {e}
         IN IF e[1] > dist[e[2]] THEN DijkstraLoop(grid, dist, rest)
            ELSE LET r == RelaxFrom(grid, dist, rest, e[1], e[2], 1)
                 IN DijkstraLoop(grid, r.dist, r.heap)

\* variant: the field is filled from a blocked goal as well
compute_distance_field_BlockedGoal(grid, goal) ==
    LET filled == [i \in DOMAIN grid.cells |-> DistMax]
        goal_idx == Grid_idx(grid, goal[1], goal[2])
    IN DijkstraLoop(grid, [filled EXCEPT ![goal_idx] = 0], {<< 0, goal_idx >>})

\* compute_distance_field: the dist array it leaves
compute_distance_field(grid, goal) ==
    LET filled == [i \in DOMAIN grid.cells |-> DistMax]
        goal_idx == Grid_idx(grid, goal[1], goal[2])
    IN IF Grid_is_blocked_idx(grid, goal_idx) THEN filled
       ELSE DijkstraLoop(grid, [filled EXCEPT ![goal_idx] = 0], {<< 0, goal_idx >>})

\* MobMoveResult
Moved == [kind |-> "Moved"]
Leaked == [kind |-> "Leaked"]
NoTower == [idx |-> 0, version |-> 0]
AttackTower(tower) == [kind |-> "AttackTower", tower |-> tower]

\* the gradient loop of move_mob from neighbour i on: the best neighbour found, or none
RECURSIVE BestNeighbor(_, _, _, _, _, _)
BestNeighbor(st, mx, my, i, best_dist, best_neighbor) ==
    IF i > Len(NEIGHBORS) THEN best_neighbor
    ELSE LET dx == NEIGHBORS[i][1]
             dy == NEIGHBORS[i][2]
             nx == mx + dx
             ny == my + dy
             nidx == Grid_idx(st.grid, nx, ny)
         IN IF OutOfGrid(st.grid, nx, ny) THEN BestNeighbor(st, mx, my, i + 1, best_dist, best_neighbor)
            ELSE IF Grid_is_blocked_idx(st.grid, nidx)
                 THEN BestNeighbor(st, mx, my, i + 1, best_dist, best_neighbor)
            ELSE IF is_diagonal(i) /\ ~diagonal_allowed(st.grid, mx, my, dx, dy)
                 THEN BestNeighbor(st, mx, my, i + 1, best_dist, best_neighbor)
            ELSE IF st.dist[nidx] < best_dist
                 THEN BestNeighbor(st, mx, my, i + 1, st.dist[nidx], << nx, ny >>)
            ELSE BestNeighbor(st, mx, my, i + 1, best_dist, best_neighbor)

\* frontier_score: least distance among the unblocked neighbours of the tower cell
frontier_score(grid, dist, tx, ty) ==
    LET ds == {dist[Grid_idx(grid, tx + NEIGHBORS[i][1], ty + NEIGHBORS[i][2])] :
                  i \in {j \in DOMAIN NEIGHBORS :
                            /\ ~OutOfGrid(grid, tx + NEIGHBORS[j][1], ty + NEIGHBORS[j][2])
                            /\ ~Grid_is_blocked_idx(grid,
                                   Grid_idx(grid, tx + NEIGHBORS[j][1], ty + NEIGHBORS[j][2]))}}
    IN IF ds = {} THEN DistMax ELSE CHOOSE d \in ds : \A e \in ds : d <= e

\* find_attack_target: the adjacent tower with the least (score, hp, order)
find_attack_target(st, mx, my) ==
    LET cand == {i \in DOMAIN NEIGHBORS :
                    LET nx == mx + NEIGHBORS[i][1]
                        ny == my + NEIGHBORS[i][2]
                    IN /\ ~OutOfGrid(st.grid, nx, ny)
                       /\ Grid_get(st.grid, nx, ny).cell = "Tower"
                       /\ SlotMap_contains(st.towers, Grid_get(st.grid, nx, ny).id)}
        key(i) == LET nx == mx + NEIGHBORS[i][1]
                      ny == my + NEIGHBORS[i][2]
                  IN << frontier_score(st.grid, st.dist, nx, ny),
                        SlotMap_get(st.towers, Grid_get(st.grid, nx, ny).id).hp, i >>
        less(a, b) == \/ a[1] < b[1]
                      \/ a[1] = b[1] /\ a[2] < b[2]
                      \/ a[1] = b[1] /\ a[2] = b[2] /\ a[3] <= b[3]
    IN IF cand = {} THEN NoTower
       ELSE LET i == CHOOSE c \in cand : \A o \in cand : less(key(c), key(o))
            IN Grid_get(st.grid, mx + NEIGHBORS[i][1], my + NEIGHBORS[i][2]).id

\* the neighbour loop of the search for the cell idx popped from the queue, from
\* neighbour i on; found is set when a blocked cell was met
RECURSIVE BfsNeighbors(_, _, _, _, _, _)
BfsNeighbors(grid, idx, i, visited, parent, queue) ==
    IF i > Len(NEIGHBORS)
    THEN [visited |-> visited, parent |-> parent, queue |-> queue, found |-> FALSE]
    ELSE LET x == CellX(grid, idx)
             y == CellY(grid, idx)
             dx == NEIGHBORS[i][1]
             dy == NEIGHBORS[i][2]
             nx == x + dx
             ny == y + dy
             nidx == Grid_idx(grid, nx, ny)
         IN IF OutOfGrid(grid, nx, ny) THEN BfsNeighbors(grid, idx, i + 1, visited, parent, queue)
            ELSE IF nidx \in visited THEN BfsNeighbors(grid, idx, i + 1, visited, parent, queue)
            ELSE IF is_diagonal(i) /\ ~diagonal_allowed(grid, x, y, dx, dy)
                 THEN BfsNeighbors(grid, idx, i + 1, visited, parent, queue)
            ELSE IF Grid_is_blocked_idx(grid, nidx)
                 THEN [visited |-> visited, parent |-> parent, queue |-> queue, found |-> TRUE]
            ELSE BfsNeighbors(grid, idx, i + 1, visited \cup {nidx},
                              MapInsert(parent, nidx, idx), Append(queue, nidx))

\* the search loop: the cell next to the first blocked cell met, or -1
RECURSIVE BfsLoop(_, _, _, _)
BfsLoop(grid, visited, parent, queue) ==
    IF queue = << >> THEN [target |-> -1, parent |-> parent]
    ELSE LET idx == Head(queue)
             next(r) == IF r.found THEN [target |-> idx, parent |-> r.parent]
                        ELSE BfsLoop(grid, r.visited, r.parent, r.queue)
         IN Then(BfsNeighbors(grid, idx, 1, visited, parent, Tail(queue)), next)

\* the walk back along the parents to the first step from the start
RECURSIVE Backtrack(_, _, _)
Backtrack(parent, current, start_idx) ==
    IF current \in DOMAIN parent
    THEN IF parent[current] = start_idx THEN current
         ELSE Backtrack(parent, parent[current], start_idx)
    ELSE IF current # start_idx THEN current ELSE -1

\* find_move_toward_tower: the cell to step to, or << >> for None
find_move_toward_tower(st, mx, my) ==
    LET start_idx == Grid_idx(st.grid, mx, my)
        cell(step) ==
            IF step = -1 THEN << >> ELSE << CellX(st.grid, step), CellY(st.grid, step) >>
        first(r) ==
            cell(IF r.target = -1 THEN -1 ELSE Backtrack(r.parent, r.target, start_idx))
    IN Then(BfsLoop(st.grid, {start_idx}, EmptyMap, << start_idx >>), first)

\* move_mob: the state with the mob moved and the MobMoveResult
move_mob(st, mob_id, can_move) ==
    LET mob == SlotMap_get(st.mobs, mob_id)
        mx == mob.x
        my == mob.y
        goal == st.config.goal
        mob_dist == st.dist[Grid_idx(st.grid, mx, my)]
        best == IF mob_dist # DistMax
                THEN Then(<< mx, my, mob_dist >>,
                          LAMBDA m : BestNeighbor(st, m[1], m[2], 1, m[3], << >>))
                ELSE << >>
        moved(cell) == [st EXCEPT !.mobs = SlotMap_set(@, mob_id,
                                              [mob EXCEPT !.x = cell[1], !.y = cell[2]])]
        blocked(tower_id, toward) ==
            IF tower_id # NoTower THEN [st |-> st, result |-> AttackTower(tower_id)]
            ELSE IF toward # << >> THEN [st |-> moved(toward), result |-> Moved]
            ELSE [st |-> st, result |-> AttackTower(NoTower)]
        downhill(cell) ==
            IF cell # << >>
            THEN IF can_move THEN [st |-> moved(cell), result |-> Moved]
                 ELSE [st |-> st, result |-> AttackTower(NoTower)]
            ELSE blocked(find_attack_target(st, mx, my),
                         IF can_move THEN find_move_toward_tower(st, mx, my) ELSE << >>)
    IN IF mx = goal[1] /\ my = goal[2] THEN [st |-> st, result |-> Leaked]
       ELSE Then(best, downhill)

\* ---- systems, continued
Mob_new(config, hp, tick) ==
    [x |-> config.spawn[1], y |-> config.spawn[2], hp |-> hp, dmg |-> 1, speed |-> 2,
     next_move_tick |-> tick]

\* variant: a finished wave pays nothing
update_wave_NoAward(st, tick) ==
    LET config == st.config
        p == config.player_count
    IN IF st.phase.phase = "Pause"
       THEN IF tick >= st.phase.until_tick
            THEN IF st.current_wave + 1 > config.waves_total
                 THEN Out([st EXCEPT !.current_wave = config.waves_total], << >>)
                 ELSE Out([st EXCEPT !.current_wave = @ + 1,
                                     !.phase = InWave(0, TdConfig_wave_size(config,
                                                             st.current_wave + 1, p), tick)],
                          << [type |-> "WaveStarted", wave |-> st.current_wave + 1] >>)
            ELSE Out(st, << >>)
       ELSE LET spawn == tick >= st.phase.next_spawn_tick /\ st.phase.spawned < st.phase.wave_size
                s1 == IF spawn
                      THEN [st EXCEPT
                              !.mobs = SlotMap_insert(@, Mob_new(config,
                                          TdConfig_mob_hp(config, st.current_wave, p), tick)).map,
                              !.phase.spawned = @ + 1,
                              !.phase.next_spawn_tick =
                                  tick + TdConfig_duration_to_ticks(config, config.spawn_interval)]
                      ELSE st
            IN IF s1.phase.spawned >= s1.phase.wave_size /\ SlotMap_is_empty(s1.mobs)
               THEN Out([s1 EXCEPT !.phase = Pause(tick + TdConfig_duration_to_ticks(config,
                                                              config.inter_wave_pause))],
                        << [type |-> "WaveEnded", wave |-> s1.current_wave] >>)
               ELSE Out(s1, << >>)

\* variant: the pause ends one tick before until_tick
update_wave_EarlyStart(st, tick) ==
    LET config == st.config
        p == config.player_count
    IN IF st.phase.phase = "Pause"
       THEN IF tick + 1 >= st.phase.until_tick
            THEN IF st.current_wave + 1 > config.waves_total
                 THEN Out([st EXCEPT !.current_wave = config.waves_total], << >>)
                 ELSE Out([st EXCEPT !.current_wave = @ + 1,
                                     !.phase = InWave(0, TdConfig_wave_size(config,
                                                             st.current_wave + 1, p), tick)],
                          << [type |-> "WaveStarted", wave |-> st.current_wave + 1] >>)
            ELSE Out(st, << >>)
       ELSE LET spawn == tick >= st.phase.next_spawn_tick /\ st.phase.spawned < st.phase.wave_size
                s1 == IF spawn
                      THEN [st EXCEPT
                              !.mobs = SlotMap_insert(@, Mob_new(config,
                                          TdConfig_mob_hp(config, st.current_wave, p), tick)).map,
                              !.phase.spawned = @ + 1,
                              !.phase.next_spawn_tick =
                                  tick + TdConfig_duration_to_ticks(config, config.spawn_interval)]
                      ELSE st
            IN IF s1.phase.spawned >= s1.phase.wave_size /\ SlotMap_is_empty(s1.mobs)
               THEN Out([s1 EXCEPT !.gold = @ + TdConfig_gold_per_wave(config, s1.current_wave, p),
                                   !.phase = Pause(tick + TdConfig_duration_to_ticks(config,
                                                              config.inter_wave_pause))],
                        << [type |-> "WaveEnded", wave |-> s1.current_wave] >>)
               ELSE Out(s1, << >>)

update_wave(st, tick) ==
    LET config == st.config
        p == config.player_count
    IN IF st.phase.phase = "Pause"
       THEN IF tick >= st.phase.until_tick
            THEN IF st.current_wave + 1 > config.waves_total
                 THEN Out([st EXCEPT !.current_wave = config.waves_total], << >>)
                 ELSE Out([st EXCEPT !.current_wave = @ + 1,
                                     !.phase = InWave(0, TdConfig_wave_size(config,
                                                             st.current_wave + 1, p), tick)],
                          << [type |-> "WaveStarted", wave |-> st.current_wave + 1] >>)
            ELSE Out(st, << >>)
       ELSE LET spawn == tick >= st.phase.next_spawn_tick /\ st.phase.spawned < st.phase.wave_size
                s1 == IF spawn
                      THEN [st EXCEPT
                              !.mobs = SlotMap_insert(@, Mob_new(config,
                                          TdConfig_mob_hp(config, st.current_wave, p), tick)).map,
                              !.phase.spawned = @ + 1,
                              !.phase.next_spawn_tick =
                                  tick + TdConfig_duration_to_ticks(config, config.spawn_interval)]
                      ELSE st
            IN IF s1.phase.spawned >= s1.phase.wave_size /\ SlotMap_is_empty(s1.mobs)
               THEN Out([s1 EXCEPT !.gold = @ + TdConfig_gold_per_wave(config, s1.current_wave, p),
                                   !.phase = Pause(tick + TdConfig_duration_to_ticks(config,
                                                              config.inter_wave_pause))],
                        << [type |-> "WaveEnded", wave |-> s1.current_wave] >>)
               ELSE Out(s1, << >>)

\* the first pass of the move phase over the mobs ids[i..]: the state with the mobs
\* moved, the leaked mobs and the attacks in the order they were recorded
RECURSIVE MovePass(_, _, _, _, _, _)
MovePass(st, tick, ids, i, leaked, attacks) ==
    IF i > Len(ids) THEN [st |-> st, leaked |-> leaked, attacks |-> attacks]
    ELSE LET id == ids[i]
             can_move == tick >= SlotMap_get(st.mobs, id).next_move_tick
             next(s, l, a) ==
                 Then(<< s, l, a >>, LAMBDA v : MovePass(v[1], tick, ids, i + 1, v[2], v[3]))
             record(r) ==
                 IF r.result = Moved
                 THEN next([r.st EXCEPT !.mobs = SlotMap_set(@, id,
                                          [SlotMap_get(r.st.mobs, id) EXCEPT
                                              !.next_move_tick = tick + MoveInterval(st.config)])],
                           leaked, attacks)
                 ELSE IF r.result = Leaked THEN next(r.st, Append(leaked, id), attacks)
                 ELSE IF r.result.tower # NoTower
                 THEN next(r.st, leaked, Append(attacks, r.result.tower))
                 ELSE next(r.st, leaked, attacks)
         IN Then(move_mob(st, id, can_move), record)

\* the attacks applied in order: towers with one hit point less each, and the towers
\* that fell to zero in the order they did
RECURSIVE ApplyAttacks(_, _, _)
ApplyAttacks(towers, attacks, destroyed) ==
    IF attacks = << >> THEN [towers |-> towers, destroyed |-> destroyed]
    ELSE LET id == Head(attacks)
         IN IF SlotMap_contains(towers, id)
            THEN LET t == SlotMap_get(towers, id)
                     hit == SlotMap_set(towers, id, [t EXCEPT !.hp = @ - 1])
                     gone == t.hp - 1 <= 0 /\ \A j \in DOMAIN destroyed : destroyed[j] # id
                 IN ApplyAttacks(hit, Tail(attacks),
                                 IF gone THEN Append(destroyed, id) ELSE destroyed)
            ELSE ApplyAttacks(towers, Tail(attacks), destroyed)

\* variant: the cell of a destroyed tower keeps its Tower state
RECURSIVE RemoveTowers_KeepCell(_, _, _)
RemoveTowers_KeepCell(st, destroyed, ev) ==
    IF destroyed = << >> THEN Out(st, ev)
    ELSE LET id == Head(destroyed)
         IN IF SlotMap_contains(st.towers, id)
            THEN LET t == SlotMap_get(st.towers, id)
                 IN RemoveTowers_KeepCell([st EXCEPT !.towers = SlotMap_remove(@, id)],
                                          Tail(destroyed),
                                          Append(ev, [type |-> "TowerDestroyed", id |-> id,
                                                      x |-> t.x, y |-> t.y]))
            ELSE RemoveTowers_KeepCell(st, Tail(destroyed), ev)

RECURSIVE RemoveTowers(_, _, _)
RemoveTowers(st, destroyed, ev) ==
    IF destroyed = << >> THEN Out(st, ev)
    ELSE LET id == Head(destroyed)
         IN IF SlotMap_contains(st.towers, id)
            THEN LET t == SlotMap_get(st.towers, id)
                 IN RemoveTowers([st EXCEPT !.towers = SlotMap_remove(@, id),
                                            !.grid = Grid_set(@, t.x, t.y, Empty)],
                                 Tail(destroyed),
                                 Append(ev, [type |-> "TowerDestroyed", id |-> id,
                                             x |-> t.x, y |-> t.y]))
            ELSE RemoveTowers(st, Tail(destroyed), ev)

\* variant: a mob at the goal is taken off the grid without being counted
RECURSIVE CountLeaks_Uncounted(_, _, _)
CountLeaks_Uncounted(st, leaked, ev) ==
    IF leaked = << >> THEN Out(st, ev)
    ELSE LET id == Head(leaked)
         IN IF SlotMap_contains(st.mobs, id)
            THEN CountLeaks_Uncounted([st EXCEPT !.mobs = SlotMap_remove(@, id)],
                                      Tail(leaked), Append(ev, [type |-> "MobLeaked", id |-> id]))
            ELSE CountLeaks_Uncounted(st, Tail(leaked), ev)

RECURSIVE CountLeaks(_, _, _)
CountLeaks(st, leaked, ev) ==
    IF leaked = << >> THEN Out(st, ev)
    ELSE LET id == Head(leaked)
         IN IF SlotMap_contains(st.mobs, id)
            THEN CountLeaks([st EXCEPT !.mobs = SlotMap_remove(@, id), !.leaks = @ + 1],
                            Tail(leaked), Append(ev, [type |-> "MobLeaked", id |-> id]))
            ELSE CountLeaks(st, Tail(leaked), ev)

move_mobs(st, tick) ==
    LET attack(pass) ==
            LET remove(hit) ==
                    LET count(removed) ==
                            LET refreshed ==
                                    IF hit.destroyed # << >>
                                    THEN [removed.st EXCEPT
                                             !.dist = compute_distance_field(
                                                          removed.st.grid, st.config.goal)]
                                    ELSE removed.st
                            IN Then(refreshed,
                                    LAMBDA s : CountLeaks(s, pass.leaked, removed.ev))
                    IN Then(RemoveTowers([pass.st EXCEPT !.towers = hit.towers],
                                         hit.destroyed, << >>), count)
            IN Then(ApplyAttacks(pass.st.towers, pass.attacks, << >>), remove)
    IN Then(Then(SlotMap_keys(st.mobs), LAMBDA ids : MovePass(st, tick, ids, 1, << >>, << >>)),
            attack)

\* find_tower_target over the mobs ids[i..]: best is << >> or << id, dist_sq, hp >>
RECURSIVE TargetFrom(_, _, _, _, _, _, _)
TargetFrom(mobs, ids, i, tx, ty, range, best) ==
    IF i > Len(ids) THEN best
    ELSE LET mob == SlotMap_get(mobs, ids[i])
             dx == mob.x - tx
             dy == mob.y - ty
             dist_sq == dx * dx + dy * dy
             dominated == best # << >> /\ (dist_sq < best[2] \/ (dist_sq = best[2] /\ mob.hp < best[3]))
         IN IF dist_sq <= range * range /\ (best = << >> \/ dominated)
            THEN TargetFrom(mobs, ids, i + 1, tx, ty, range, << ids[i], dist_sq, mob.hp >>)
            ELSE TargetFrom(mobs, ids, i + 1, tx, ty, range, best)

find_tower_target(tx, ty, range, mobs) ==
    TargetFrom(mobs, SlotMap_keys(mobs), 1, tx, ty, range, << >>)

\* the shots of tower_attacks in order; a shot carries the damage computed beforehand
RECURSIVE FireShots(_, _, _)
FireShots(st, tick, shots) ==
    IF shots = << >> THEN st
    ELSE LET shot == Head(shots)
             tower == SlotMap_get(st.towers, shot.id)
             best == find_tower_target(tower.x, tower.y, st.config.basic_spec.range, st.mobs)
         IN IF best = << >> THEN FireShots(st, tick, Tail(shots))
            ELSE LET mob == SlotMap_get(st.mobs, best[1])
                 IN FireShots([st EXCEPT
                                 !.mobs = SlotMap_set(@, best[1], [mob EXCEPT !.hp = @ - shot.damage]),
                                 !.towers = SlotMap_set(@, shot.id,
                                               [tower EXCEPT !.next_fire_tick =
                                                   tick + TdConfig_duration_to_ticks(st.config,
                                                              st.config.basic_spec.fire_period)])],
                              tick, Tail(shots))

tower_attacks(st, tick) ==
    LET ids == SlotMap_keys(st.towers)
        ready == SelectSeq(ids, LAMBDA id : tick >= SlotMap_get(st.towers, id).next_fire_tick)
        shots == [i \in 1..Len(ready) |->
                     [id |-> ready[i],
                      damage |-> TdConfig_tower_damage(st.config,
                                    SlotMap_get(st.towers, ready[i]).upgrade_level)]]
    IN FireShots(st, tick, shots)

RECURSIVE ReapFrom(_, _, _, _)
ReapFrom(st, dead, gold_per_kill, ev) ==
    IF dead = << >> THEN Out(st, ev)
    ELSE LET id == Head(dead)
             mob == SlotMap_get(st.mobs, id)
         IN ReapFrom([st EXCEPT !.mobs = SlotMap_remove(@, id), !.gold = @ + gold_per_kill],
                     Tail(dead), gold_per_kill,
                     Append(ev, [type |-> "MobKilled", id |-> id, x |-> mob.x, y |-> mob.y]))

remove_dead(st) ==
    ReapFrom(st, SelectSeq(SlotMap_keys(st.mobs), LAMBDA id : SlotMap_get(st.mobs, id).hp <= 0),
             TdConfig_gold_per_kill(st.config, st.current_wave), << >>)

\* ---- TdGame
TdGame_new(config) ==
    LET st == TdState_new(config)
    IN [st EXCEPT !.dist = compute_distance_field(st.grid, config.goal)]

PlaceTower(x, y) == [type |-> "PlaceTower", x |-> x, y |-> y, kind |-> "Basic"]
UpgradeTower(tower_id) == [type |-> "UpgradeTower", tower_id |-> tower_id]

\* the loop of step over the actions of the tick
RECURSIVE ApplyActions(_, _, _, _)
ApplyActions(st, tick, actions, ev) ==
    IF actions = << >> THEN Out(st, ev)
    ELSE LET a == Head(actions)
             r == IF a.payload.type = "PlaceTower"
                  THEN try_queue_build(st, a.payload.x, a.payload.y, a.payload.kind, tick,
                                       a.player_id)
                  ELSE try_upgrade_tower(st, a.payload.tower_id)
         IN ApplyActions(r.st, tick, Tail(actions), ev \o r.ev)

\* step up to the move phase: actions, finished builds, the refresh of the distance
\* field, the wave
BeforeMove(g, tick, actions) ==
    LET build(acted) ==
            LET wave(built) ==
                    LET refreshed == IF built.towers_placed
                                     THEN [built.st EXCEPT
                                              !.dist = compute_distance_field(
                                                           built.st.grid, g.config.goal)]
                                     ELSE built.st
                        out(waved) == Out(waved.st, built.ev \o waved.ev)
                    IN Then(Then(refreshed, LAMBDA s : update_wave(s, tick)), out)
            IN Then(process_builds(acted.st, tick, acted.ev, FALSE), wave)
    IN Then(ApplyActions([g EXCEPT !.tick = tick], tick, actions, << >>), build)

TdGame_step(g, tick, actions) ==
    LET move(before) ==
            LET attack(moved) ==
                    LET finish(reaped) ==
                            [game |-> reaped.st,
                             events |-> before.ev \o moved.ev \o reaped.ev]
                    IN Then(Then(tower_attacks(moved.st, tick), remove_dead), finish)
            IN Then(move_mobs(before.st, tick), attack)
    IN Then(BeforeMove(g, tick, actions), move)

TdGame_observe(g, tick, player) ==
    [tick |-> tick, gold |-> g.gold, leaks |-> g.leaks, current_wave |-> g.current_wave,
     wave_status |-> g.phase,
     towers |-> [i \in 1..Len(SlotMap_keys(g.towers)) |->
                    LET t == SlotMap_get(g.towers, SlotMap_keys(g.towers)[i])
                    IN [x |-> t.x, y |-> t.y, hp |-> t.hp, kind |-> t.kind,
                        player_id |-> t.player_id]],
     mobs |-> [i \in 1..Len(SlotMap_keys(g.mobs)) |->
                  LET m == SlotMap_get(g.mobs, SlotMap_keys(g.mobs)[i])
                  IN [x |-> m.x, y |-> m.y, hp |-> m.hp]],
     build_queue |-> g.build_queue]

\* variant: the game is lost as soon as the leaks reach max_leaks
TdGame_is_terminal_AtMax(g) ==
    IF g.leaks >= g.config.max_leaks THEN "Lose"
    ELSE IF g.current_wave = g.config.waves_total /\ g.phase.phase = "Pause"
            /\ SlotMap_is_empty(g.mobs) THEN "Win"
    ELSE "None"

TdGame_is_terminal(g) ==
    IF g.leaks > g.config.max_leaks THEN "Lose"
    ELSE IF g.current_wave = g.config.waves_total /\ g.phase.phase = "Pause"
            /\ SlotMap_is_empty(g.mobs) THEN "Win"
    ELSE "None"

IsTdGame(g) == "grid" \in DOMAIN g

\* ------------------------------------------------- the game (CounterGame)
Game_new(target) == [counter |-> 0, target |-> target]

RECURSIVE Game_apply(_, _, _)
Game_apply(g, actions, events) ==
    IF actions = << >> THEN [game |-> g, events |-> events]
    ELSE LET a == Head(actions)
             c == g.counter + a.payload
         IN Game_apply([g EXCEPT !.counter = c], Tail(actions),
                       Append(events, [type |-> "Incremented", amount |-> a.payload, new_value |-> c]))

\* the hosted game is the counter game or the tower defense
Game_step(g, tick, actions) ==
    IF IsTdGame(g) THEN TdGame_step(g, tick, actions)
    ELSE LET r == Game_apply(g, actions, << >>)
         IN [game |-> r.game,
             events |-> Append(r.events, [type |-> "TickAdvanced", tick |-> tick])]

Game_observe(g, tick, player) ==
    IF IsTdGame(g) THEN TdGame_observe(g, tick, player)
    ELSE [tick |-> tick, counter |-> g.counter]

Game_is_terminal(g) ==
    IF IsTdGame(g) THEN TdGame_is_terminal(g)
    ELSE IF g.counter >= g.target THEN "Win" ELSE "None"

\* ------------------------------------------------------ the tick host
Host_new(target) ==
    [game |-> Game_new(target), current_tick |-> 0, next_player_id |-> 0,
     pending_actions |-> EmptyMap]

\* variant: a submission for the current tick keeps its tick
ScheduledTick_KeepCurrent(intended_tick, current_tick) ==
    IF intended_tick < current_tick THEN current_tick + 1 ELSE intended_tick

ScheduledTick(intended_tick, current_tick) ==
    IF intended_tick <= current_tick THEN current_tick + 1 ELSE intended_tick

Host_submit(h, action) ==
    LET scheduled_tick == ScheduledTick(action.intended_tick, h.current_tick)
        e == [action EXCEPT !.intended_tick = scheduled_tick]
        bucket == IF scheduled_tick \in DOMAIN h.pending_actions
                  THEN h.pending_actions[scheduled_tick] ELSE << >>
    IN [host |-> [h EXCEPT !.pending_actions = MapInsert(@, scheduled_tick, Append(bucket, e))],
        scheduled_tick |-> scheduled_tick]

\* variant: the sort key is the action id alone
KeyLess_ByActionId(a, b) == a.action_id < b.action_id

\* a.key < b.key for the sort key (player_id, action_id)
KeyLess(a, b) ==
    \/ a.player_id < b.player_id
    \/ a.player_id = b.player_id /\ a.action_id < b.action_id

RECURSIVE InsertSorted(_, _)
InsertSorted(sorted, a) ==
    IF sorted = << >> THEN << a >>
    ELSE IF KeyLess(a, Head(sorted)) THEN << a >> \o sorted
    ELSE << Head(sorted) >> \o InsertSorted(Tail(sorted), a)

\* variant: the bucket is passed on in arrival order
SortByKey_Arrival(actions) == actions

RECURSIVE SortByKey(_)
SortByKey(actions) ==
    IF actions = << >> THEN << >>
    ELSE InsertSorted(SortByKey(SubSeq(actions, 1, Len(actions) - 1)), actions[Len(actions)])

\* variant: the bucket is read but stays in the schedule
Host_step_one_tick_KeepBucket(h) ==
    IF Game_is_terminal(h.game) # "None"
    THEN [host |-> h, stepped |-> FALSE, events |-> << >>, actions |-> << >>]
    ELSE LET tick == h.current_tick + 1
             actions == SortByKey(IF tick \in DOMAIN h.pending_actions
                                  THEN h.pending_actions[tick] ELSE << >>)
             stepped(r) == [host |-> [h EXCEPT !.current_tick = tick, !.game = r.game],
                            stepped |-> TRUE, events |-> r.events, actions |-> actions]
         IN Then(Game_step(h.game, tick, actions), stepped)

\* step_one_tick: stepped = FALSE models the None result
Host_step_one_tick(h) ==
    IF Game_is_terminal(h.game) # "None"
    THEN [host |-> h, stepped |-> FALSE, events |-> << >>, actions |-> << >>]
    ELSE LET tick == h.current_tick + 1
             actions == SortByKey(IF tick \in DOMAIN h.pending_actions
                                  THEN h.pending_actions[tick] ELSE << >>)
             stepped(r) == [host |-> [h EXCEPT !.current_tick = tick,
                                               !.pending_actions = MapRemove(@, tick),
                                               !.game = r.game],
                            stepped |-> TRUE, events |-> r.events, actions |-> actions]
         IN Then(Game_step(h.game, tick, actions), stepped)

\* ------------------------------------------------------ event ring buffer
None == [sequence |-> -1]

EventBuffer_new(capacity) ==
    [buffer |-> [i \in 0..(Max(capacity, 1) - 1) |-> None],
     capacity |-> Max(capacity, 1), next_sequence |-> 0]

\* variant: the sequence number is not advanced when the slot is written
EventBuffer_push_SameSequence(b, tick, event) ==
    [b EXCEPT !.buffer[b.next_sequence % b.capacity] =
                  [sequence |-> b.next_sequence, tick |-> tick, event |-> event]]

EventBuffer_push(b, tick, event) ==
    [b EXCEPT !.buffer[b.next_sequence % b.capacity] =
                  [sequence |-> b.next_sequence, tick |-> tick, event |-> event],
              !.next_sequence = @ + 1]

\* variant: the events of the step are put into the ring last first
RECURSIVE EventBuffer_push_all_Reversed(_, _, _)
EventBuffer_push_all_Reversed(b, tick, evs) ==
    IF evs = << >> THEN b
    ELSE EventBuffer_push(EventBuffer_push_all_Reversed(b, tick, Tail(evs)), tick, Head(evs))

\* variant: the events of the step are not put into the ring
EventBuffer_push_all_Nothing(b, tick, evs) == b

RECURSIVE EventBuffer_push_all(_, _, _)
EventBuffer_push_all(b, tick, evs) ==
    IF evs = << >> THEN b
    ELSE EventBuffer_push_all(EventBuffer_push(b, tick, Head(evs)), tick, Tail(evs))

\* oldest sequence number the ring can still hold
OldestAvailable(b) ==
    IF b.next_sequence > b.capacity THEN b.next_sequence - b.capacity ELSE 0

\* variant: reading always starts at the oldest retained entry
EffectiveStart_FromOldest(start_seq, oldest_available) == oldest_available

\* the requested cursor or the oldest available entry, whichever is newer
EffectiveStart(start_seq, oldest_available) == Max(start_seq, oldest_available)

\* the loop over seq in effective_start..next_sequence: a slot is taken when
\* it is filled and still carries the sequence number asked for
RECURSIVE CollectFrom(_, _)
CollectFrom(b, seq) ==
    IF seq >= b.next_sequence THEN << >>
    ELSE LET slot == b.buffer[seq % b.capacity]
         IN  (IF slot # None /\ slot.sequence = seq THEN << slot >> ELSE << >>)
                 \o CollectFrom(b, seq + 1)

EventBuffer_get_from_cursor(b, cursor) ==
    IF b.next_sequence = 0
    THEN [events |-> << >>, cursor |-> 0]
    ELSE [events |-> CollectFrom(b, EffectiveStart(cursor, OldestAvailable(b))),
          cursor |-> b.next_sequence]

\* ------------------------------------------------------- match manager
VARIABLES
    host,                   \* MatchInner.host
    events,                 \* MatchInner.events
    sessions,               \* SessionToken -> PlayerId
    players,                \* PlayerId -> SessionToken
    spectators,             \* set of SessionToken
    next_session_id,
    next_action_id,
    required_players,
    status,
    last_decision_tick,
    cached_observations,    \* PlayerId -> Observation
    session_observe_state,  \* SessionToken -> [last_observed_tick, is_waiting]
    shutdown,               \* MatchHandle.shutdown
    driver,                 \* position of the tick loop task
    pc,                     \* position of each observe_next caller
    call,                   \* arguments of each caller's observe_next call
    notified,               \* callers whose Notified future has been woken
    ret,                    \* result of each caller's last call, with what its session held before
    obsTicks,               \* per session: tick of the last observation returned by observe
    nextTicks,              \* per session: tick of the last observe_next result with timed_out = false
    called,                 \* sessions on which observe_next has been called
    peerRes,                \* per caller: result of a same-session call that returned during this call
    stepLog,                \* tick -> actions passed to Game::step at that tick
    submitted,              \* accepted submissions in arrival order: envelope, tick at submission, result
    twin,                   \* a second run of the match fed the same per-player action streams
    registry,               \* GameServer: ids in the matches map and next_match_id
    admin,                  \* position of the caller of terminate_match / shutdown
    creator,                \* position of each caller of create_match
    api,                    \* result of the latest call through the GameServer facade
    reader,                 \* a poll_events client: its cursor and what it received
    calc,                   \* the arguments and the result of a function applied on its own
    locks                   \* who holds the registry lock and the match mutex

vars == << host, events, sessions, players, spectators, next_session_id, next_action_id,
           required_players, status, last_decision_tick, cached_observations,
           session_observe_state, shutdown, driver, pc, call, notified, ret,
           obsTicks, nextTicks, called, peerRes, stepLog, submitted, twin,
           registry, admin, creator, api, reader, calc, locks >>

mgrVars == << host, events, sessions, players, spectators, next_session_id, next_action_id,
              required_players, status, last_decision_tick, cached_observations,
              session_observe_state >>

callVars == << pc, call, notified, ret, called, peerRes >>

histVars == << obsTicks, nextTicks, stepLog, submitted, twin >>
srvVars == << registry, admin, creator, api, reader >>

WaitingForPlayers(c, r) == [kind |-> "WaitingForPlayers", current |-> c, required |-> r]
Running == [kind |-> "Running"]
Finished(outcome) == [kind |-> "Finished", outcome |-> outcome]
Terminated == [kind |-> "Terminated"]

\* GameServer state: the modelled match was created first and got id 1
TheMatch == 1
AdminIdle == [pc |-> "idle", op |-> "none", id |-> 0]

\* the holders of the match mutex: a client call, the tick loop task, terminate_match
Free == [proc |-> "none"]
Holder(c) == [proc |-> "caller", c |-> c]
DriverTask == [proc |-> "driver"]
AdminCall == [proc |-> "admin"]

\* nobody holds or wants a lock: ask[c] is the facade call in which caller c waits for
\* the read side of the registry lock and read[c] the one in which it holds it, queued the
\* call that waits for the write side and writer the one that holds it
NoLocks ==
    [mutex |-> Free, writer |-> "none", queued |-> "none",
     read |-> [c \in Callers |-> "none"], ask |-> [c \in Callers |-> "none"],
     calls |-> [c \in Callers |-> {}], creates |-> FALSE]

\* the guards a call drops when it returns from the section under the match mutex:
\* the mutex and, for a facade call, the read side of the registry lock
Dropped(l) ==
    [l EXCEPT !.mutex = Free,
              !.read = [c \in Callers |-> IF l.mutex = Holder(c) THEN "none" ELSE @[c]]]
NoApi == [op |-> "none", id |-> 0, result |-> "none"]
CreatorIdle == [pc |-> "idle", id |-> 0]
Reader_new == [cursor |-> 0, log |-> << >>]

NoRet == [kind |-> "none"]
NoCall == [session |-> 0, after_tick |-> 0, first |-> FALSE, waited |-> FALSE, expired |-> FALSE]

\* the second run starts like the first: same game config, nothing submitted
Twin_new ==
    [host |-> Host_new(Target), events |-> EventBuffer_new(EventCapacity),
     next_action_id |-> 1, stepLog |-> EmptyMap, sent |-> [p \in 0..(MaxPlayers - 1) |-> 0]]

\* the accepted submissions as a set
Submissions == {submitted[i] : i \in 1..Len(submitted)}

\* the server after GameServer::new and the creation of one match, whose ring has the
\* configured capacity
InitRest(event_buffer_capacity) ==
    /\ events = EventBuffer_new(event_buffer_capacity)
    /\ sessions = EmptyMap
    /\ players = EmptyMap
    /\ spectators = {}
    /\ next_session_id = 1
    /\ next_action_id = 1
    /\ required_players \in 1..MaxPlayers
    /\ status = WaitingForPlayers(0, required_players)
    /\ last_decision_tick = 0
    /\ cached_observations = EmptyMap
    /\ session_observe_state = EmptyMap
    /\ shutdown = FALSE
    /\ driver = "running"
    /\ pc = [c \in Callers |-> "idle"]
    /\ call = [c \in Callers |-> NoCall]
    /\ notified = {}
    /\ ret = [c \in Callers |-> NoRet]
    /\ obsTicks = [s \in Tokens |-> -1]
    /\ nextTicks = [s \in Tokens |-> -1]
    /\ called = {}
    /\ peerRes = [c \in Callers |-> "none"]
    /\ stepLog = EmptyMap
    /\ submitted = << >>
    /\ twin = Twin_new
    /\ registry = [matches |-> {TheMatch}, next_match_id |-> TheMatch + 1]
    /\ admin = AdminIdle
    /\ creator = [k \in Creators |-> CreatorIdle]
    /\ api = NoApi
    /\ reader = Reader_new
    /\ locks = NoLocks

NoCalc == [fn |-> "none"]

InitWith(event_buffer_capacity) ==
    /\ host = Host_new(Target)
    /\ calc = NoCalc
    /\ InitRest(event_buffer_capacity)

Init == InitWith(EventCapacity)

NewObserveState == [last_observed_tick |-> 0, is_waiting |-> FALSE]

\* Notify::notify_waiters: wakes exactly the Notified futures that exist now
NotifyWaiters == notified \cup {c \in Callers : pc[c] = "waiting"}

spectate ==
    /\ next_session_id <= MaxSessions
    /\ spectators' = spectators \cup {next_session_id}
    /\ session_observe_state' = MapInsert(session_observe_state, next_session_id, NewObserveState)
    /\ next_session_id' = next_session_id + 1
    /\ UNCHANGED << host, events, sessions, players, next_action_id, required_players, status,
                    last_decision_tick, cached_observations, shutdown, driver >>
    /\ UNCHANGED callVars
    /\ UNCHANGED << histVars, srvVars, calc, locks >>

join_player ==
    /\ next_session_id <= MaxSessions
    /\ status.kind = "WaitingForPlayers"
    /\ status.current < status.required
    /\ LET player_id == host.next_player_id
           session == next_session_id
           new_count == status.current + 1
       IN /\ host' = [host EXCEPT !.next_player_id = @ + 1]
          /\ next_session_id' = next_session_id + 1
          /\ sessions' = MapInsert(sessions, session, player_id)
          /\ players' = MapInsert(players, player_id, session)
          /\ session_observe_state' = MapInsert(session_observe_state, session, NewObserveState)
          /\ status' = IF new_count >= status.required THEN Running
                       ELSE WaitingForPlayers(new_count, status.required)
    /\ UNCHANGED << events, spectators, next_action_id, required_players, last_decision_tick,
                    cached_observations, shutdown, driver >>
    /\ UNCHANGED callVars
    /\ UNCHANGED << histVars, srvVars, calc, locks >>

leave_player(session) ==
    /\ session \in DOMAIN sessions \/ session \in spectators
    /\ session_observe_state' = MapRemove(session_observe_state, session)
    /\ IF session \in DOMAIN sessions
       THEN /\ sessions' = MapRemove(sessions, session)
            /\ players' = MapRemove(players, sessions[session])
            /\ UNCHANGED spectators
       ELSE /\ spectators' = spectators \ {session}
            /\ UNCHANGED << sessions, players >>
    /\ UNCHANGED << host, events, next_session_id, next_action_id, required_players, status,
                    last_decision_tick, cached_observations, shutdown, driver >>
    /\ UNCHANGED callVars
    /\ UNCHANGED << histVars, srvVars, calc, locks >>

submit_action(session, payload, intended_tick) ==
    /\ next_action_id <= MaxActions
    /\ session \in DOMAIN sessions
    /\ status.kind \notin {"Finished", "Terminated"}
    /\ LET envelope == [player_id |-> sessions[session], action_id |-> next_action_id,
                        intended_tick |-> intended_tick, payload |-> payload]
           r == Host_submit(host, envelope)
       IN /\ host' = r.host
          /\ next_action_id' = next_action_id + 1
          /\ submitted' = Append(submitted,
                 [player_id |-> envelope.player_id, action_id |-> envelope.action_id,
                  payload |-> payload, intended_tick |-> intended_tick,
                  at_tick |-> host.current_tick, scheduled_tick |-> r.scheduled_tick])
    /\ UNCHANGED << events, sessions, players, spectators, next_session_id, required_players, status,
                    last_decision_tick, cached_observations, session_observe_state,
                    shutdown, driver >>
    /\ UNCHANGED callVars
    /\ UNCHANGED << obsTicks, nextTicks, stepLog, twin >>
    /\ UNCHANGED << srvVars, calc, locks >>

\* player id a session observes as: Some(pid), spectators 0, otherwise no session
ResolvePlayer(session) ==
    IF session \in DOMAIN sessions THEN sessions[session]
    ELSE IF session \in spectators THEN 0
    ELSE -1

observe(session) ==
    /\ ResolvePlayer(session) # -1
    /\ LET obs == Game_observe(host.game, host.current_tick, ResolvePlayer(session))
       IN obsTicks' = [obsTicks EXCEPT ![session] = obs.tick]
    /\ UNCHANGED mgrVars
    /\ UNCHANGED << shutdown, driver >>
    /\ UNCHANGED callVars
    /\ UNCHANGED << nextTicks, stepLog, submitted, twin >>
    /\ UNCHANGED << srvVars, calc, locks >>

\* players and the synthetic spectator id 0 whose observation a decision tick caches
DecisionPlayerIds ==
    (DOMAIN players) \cup (IF spectators # {} THEN {0} ELSE {})

IsDecisionTick(tick) == tick % DecisionStride = 0

\* variant: the tick is advanced whatever the status is
StepOneTick_Ungated ==
    \E r \in {Host_step_one_tick(host)} :
            LET current_tick == r.host.current_tick
                decision == IsDecisionTick(current_tick)
                outcome == Game_is_terminal(r.host.game)
            IN /\ host' = r.host
               /\ events' = IF r.stepped
                            THEN EventBuffer_push_all(events, current_tick, r.events)
                            ELSE events
               /\ stepLog' = IF r.stepped THEN MapInsert(stepLog, current_tick, r.actions)
                             ELSE stepLog
               /\ cached_observations' =
                     IF decision
                     THEN [p \in (DOMAIN cached_observations) \cup DecisionPlayerIds |->
                              IF p \in DecisionPlayerIds
                              THEN Game_observe(r.host.game, current_tick, p)
                              ELSE cached_observations[p]]
                     ELSE cached_observations
               /\ last_decision_tick' = IF decision THEN current_tick
                                        ELSE last_decision_tick
               /\ status' = IF outcome # "None" THEN Finished(outcome) ELSE status
               /\ notified' = IF decision \/ outcome # "None" THEN NotifyWaiters
                              ELSE notified

\* MatchHandle::step_one_tick: result of the call under the match lock
StepOneTick ==
    IF status.kind # "Running"
    THEN /\ UNCHANGED << host, events, status, last_decision_tick, cached_observations,
                         notified, stepLog >>
    ELSE \E r \in {Host_step_one_tick(host)} :
            LET current_tick == r.host.current_tick
                     decision == IsDecisionTick(current_tick)
                     outcome == Game_is_terminal(r.host.game)
                 IN /\ host' = r.host
                    /\ events' = IF r.stepped
                                 THEN EventBuffer_push_all(events, current_tick, r.events)
                                 ELSE events
                    /\ stepLog' = IF r.stepped THEN MapInsert(stepLog, current_tick, r.actions)
                                  ELSE stepLog
                    /\ cached_observations' =
                          IF decision
                          THEN [p \in (DOMAIN cached_observations) \cup DecisionPlayerIds |->
                                   IF p \in DecisionPlayerIds
                                   THEN Game_observe(r.host.game, current_tick, p)
                                   ELSE cached_observations[p]]
                          ELSE cached_observations
                    /\ last_decision_tick' = IF decision THEN current_tick
                                             ELSE last_decision_tick
                    /\ status' = IF outcome # "None" THEN Finished(outcome) ELSE status
                    /\ notified' = IF decision \/ outcome # "None" THEN NotifyWaiters
                                   ELSE notified

\* the last tick explored: a tower-defense match runs longer than a counter match
TickLimit == IF IsTdGame(host.game) THEN TdMaxTick ELSE MaxTick

\* run_tick_loop: one fire of the interval; the loop ends on shutdown or a finished match
DriverFire ==
    /\ driver = "running"
    /\ status.kind = "Running" => host.current_tick < TickLimit
    /\ IF shutdown
       THEN /\ driver' = "exited"
            /\ UNCHANGED << host, events, status, last_decision_tick, cached_observations,
                            notified, stepLog >>
       ELSE /\ StepOneTick
            /\ driver' = IF status'.kind \in {"Finished", "Terminated"} THEN "exited"
                         ELSE "running"
    /\ UNCHANGED << sessions, players, spectators, next_session_id, next_action_id,
                    required_players, session_observe_state, shutdown >>
    /\ UNCHANGED << pc, call, ret, called, peerRes >>
    /\ UNCHANGED << obsTicks, nextTicks, submitted, twin >>
    /\ UNCHANGED << srvVars, calc, locks >>

terminate ==
    /\ status' = Terminated
    /\ notified' = NotifyWaiters
    /\ shutdown' = TRUE
    /\ UNCHANGED << host, events, sessions, players, spectators, next_session_id,
                    next_action_id, required_players, last_decision_tick,
                    cached_observations, session_observe_state, driver >>
    /\ UNCHANGED << pc, call, ret, called, peerRes >>
    /\ UNCHANGED << histVars, srvVars, calc, locks >>

\* ------------------------------------------------ observe_next (long-poll)
IsBootstrap(after_tick) == after_tick = 0 /\ last_decision_tick = 0

\* variant: the requested tick is used as it is
WaitAfterTick_AsRequested(after_tick, state) == after_tick

WaitAfterTick(after_tick, state) ==
    IF after_tick <= state.last_observed_tick /\ state.last_observed_tick > 0
    THEN state.last_observed_tick
    ELSE after_tick

CacheReady(wait_after_tick, player_id) ==
    last_decision_tick > wait_after_tick /\ player_id \in DOMAIN cached_observations

\* the block of observe_next that runs under the match lock (lines 395-466)
ObserveNextLocked(session, after_tick, remaining_zero) ==
    LET player_id == ResolvePlayer(session)
    IN IF player_id = -1 \/ session \notin DOMAIN session_observe_state
       THEN [outcome |-> "InvalidSession"]
       ELSE LET state == session_observe_state[session]
            IN IF state.is_waiting THEN [outcome |-> "AlreadyWaiting"]
               ELSE IF IsBootstrap(after_tick)
               THEN [outcome |-> "Bootstrap",
                     obs |-> Game_observe(host.game, host.current_tick, player_id),
                     last |-> host.current_tick]
               ELSE IF CacheReady(WaitAfterTick(after_tick, state), player_id)
               THEN [outcome |-> "Cached",
                     obs |-> cached_observations[player_id],
                     last |-> last_decision_tick]
               ELSE IF remaining_zero
               THEN [outcome |-> "Timeout",
                     obs |-> Game_observe(host.game, host.current_tick, player_id)]
               ELSE [outcome |-> "Wait"]

\* a caller enters observe_next (start_time is taken)
ON_Enter(c, session, after_tick) ==
    /\ pc[c] = "idle"
    /\ session < next_session_id
    /\ pc' = [pc EXCEPT ![c] = "check"]
    /\ call' = [call EXCEPT ![c] = [session |-> session, after_tick |-> after_tick,
                                    first |-> session \notin called,
                                    waited |-> FALSE, expired |-> FALSE]]
    /\ called' = called \cup {session}
    /\ ret' = [ret EXCEPT ![c] = NoRet]
    /\ peerRes' = [peerRes EXCEPT ![c] = "none"]
    /\ notified' = notified \ {c}
    /\ UNCHANGED mgrVars
    /\ UNCHANGED << shutdown, driver >>
    /\ UNCHANGED << histVars, srvVars, calc >>

\* MatchHandle::observe_next called on the handle itself
ON_Call(c, session, after_tick) == ON_Enter(c, session, after_tick) /\ UNCHANGED locks

\* the call of caller c returns result r
Return(c, r) ==
    /\ pc' = [pc EXCEPT ![c] = "idle"]
    /\ ret' = [ret EXCEPT ![c] = r @@ [peer |-> peerRes[c],
                                        prev |-> nextTicks[call[c].session],
                                        held |-> obsTicks[call[c].session]]]
    /\ call' = [call EXCEPT ![c].waited = FALSE, ![c].expired = FALSE]
    /\ peerRes' = [d \in Callers |->
                      IF d # c /\ pc[d] # "idle" /\ call[d].session = call[c].session
                      THEN r.kind
                      ELSE IF d = c THEN "none" ELSE peerRes[d]]
    /\ nextTicks' = IF r.kind = "ok" /\ ~r.timed_out
                    THEN [nextTicks EXCEPT ![call[c].session] = r.tick]
                    ELSE nextTicks

\* one pass of the loop body under the lock: return, or mark waiting
ON_Check(c) ==
    /\ pc[c] = "check"
    /\ \E remaining_zero \in BOOLEAN :
         /\ call[c].expired => remaining_zero
         /\ LET session == call[c].session
                after_tick == call[c].after_tick
                r == ObserveNextLocked(session, after_tick, remaining_zero)
            IN CASE r.outcome \in {"InvalidSession", "AlreadyWaiting"} ->
                      /\ Return(c, [kind |-> r.outcome])
                      /\ UNCHANGED session_observe_state
                 [] r.outcome \in {"Bootstrap", "Cached"} ->
                      /\ session_observe_state' =
                            [session_observe_state EXCEPT ![session].last_observed_tick = r.last]
                      /\ Return(c, [kind |-> "ok", tick |-> r.obs.tick, timed_out |-> FALSE,
                                    boot |-> r.outcome = "Bootstrap"])
                 [] r.outcome = "Timeout" ->
                      /\ Return(c, [kind |-> "ok", tick |-> r.obs.tick, timed_out |-> TRUE,
                                    boot |-> FALSE])
                      /\ UNCHANGED session_observe_state
                 [] r.outcome = "Wait" ->
                      /\ session_observe_state' =
                            [session_observe_state EXCEPT ![session].is_waiting = TRUE]
                      /\ pc' = [pc EXCEPT ![c] = "prewait"]
                      /\ call' = [call EXCEPT ![c].waited = TRUE]
                      /\ UNCHANGED << ret, peerRes, nextTicks >>
    /\ UNCHANGED << host, events, sessions, players, spectators, next_session_id,
                    next_action_id, required_players, status, last_decision_tick,
                    cached_observations, shutdown, driver, notified, called >>
    /\ UNCHANGED << obsTicks, stepLog, submitted, twin >>
    /\ UNCHANGED << srvVars, calc >>
    /\ locks' = [locks EXCEPT !.mutex = Free]

\* the lock is released; notify.notified() is created and awaited under the timeout
ON_Suspend(c) ==
    /\ pc[c] = "prewait"
    /\ pc' = [pc EXCEPT ![c] = "waiting"]
    /\ UNCHANGED mgrVars
    /\ UNCHANGED << shutdown, driver, call, notified, ret, called, peerRes >>
    /\ UNCHANGED << histVars, srvVars, calc, locks >>

\* the wait ends because notify_waiters woke the Notified future
ON_Notified(c) ==
    /\ pc[c] = "waiting"
    /\ c \in notified
    /\ pc' = [pc EXCEPT ![c] = "clear"]
    /\ notified' = notified \ {c}
    /\ UNCHANGED mgrVars
    /\ UNCHANGED << shutdown, driver, call, ret, called, peerRes >>
    /\ UNCHANGED << histVars, srvVars, calc, locks >>

\* the wait ends because remaining_ms elapsed
ON_WaitTimeout(c) ==
    /\ pc[c] = "waiting"
    /\ pc' = [pc EXCEPT ![c] = "clear"]
    /\ call' = [call EXCEPT ![c].expired = TRUE]
    /\ notified' = notified \ {c}
    /\ UNCHANGED mgrVars
    /\ UNCHANGED << shutdown, driver, ret, called, peerRes >>
    /\ UNCHANGED << histVars, srvVars, calc, locks >>

\* variant: the flag is left as it is
ClearWaiting_Keep(session) == session_observe_state

\* the observe states after the waiter of session cleared its flag (lines 477-482)
ClearWaiting(session) ==
    IF session \in DOMAIN session_observe_state
    THEN [session_observe_state EXCEPT ![session].is_waiting = FALSE]
    ELSE session_observe_state

\* is_waiting is cleared under the lock before looping back
ON_ClearWaiting(c) ==
    /\ pc[c] = "clear"
    /\ session_observe_state' = ClearWaiting(call[c].session)
    /\ pc' = [pc EXCEPT ![c] = "check"]
    /\ UNCHANGED << host, events, sessions, players, spectators, next_session_id,
                    next_action_id, required_players, status, last_decision_tick,
                    cached_observations, shutdown, driver >>
    /\ UNCHANGED << call, notified, ret, called, peerRes >>
    /\ UNCHANGED << histVars, srvVars, calc >>
    /\ locks' = [locks EXCEPT !.mutex = Free]

\* the match is in the registry: GameServer reaches it until terminate_match removed it
Registered == status.kind # "Terminated"

Next ==
    \/ Registered /\ spectate
    \/ Registered /\ join_player
    \/ \E session \in Tokens : Registered /\ leave_player(session)
    \/ \E session \in Tokens, payload \in Amounts, intended_tick \in Ticks :
          Registered /\ submit_action(session, payload, intended_tick)
    \/ \E session \in Tokens : Registered /\ observe(session)
    \/ DriverFire
    \/ Registered /\ terminate
    \/ \E c \in Callers, session \in Tokens, after_tick \in Ticks :
          Registered /\ ON_Call(c, session, after_tick)
    \/ \E c \in Callers : ON_Check(c)
    \/ \E c \in Callers : ON_Suspend(c)
    \/ \E c \in Callers : ON_Notified(c)
    \/ \E c \in Callers : ON_WaitTimeout(c)
    \/ \E c \in Callers : ON_ClearWaiting(c)

Spec == Init /\ [][Next]_vars

\* one long-poll client of a match with one required player; sessions join, spectate and leave
InitObs == Init /\ required_players = 1

NextObs ==
    \/ Registered /\ spectate
    \/ Registered /\ join_player
    \/ \E session \in Tokens : Registered /\ leave_player(session)
    \/ DriverFire
    \/ Registered /\ terminate
    \/ \E session \in Tokens, after_tick \in Ticks : Registered /\ ON_Call(1, session, after_tick)
    \/ ON_Check(1)
    \/ ON_Suspend(1)
    \/ ON_Notified(1)
    \/ ON_WaitTimeout(1)
    \/ ON_ClearWaiting(1)

SpecObs == InitObs /\ [][NextObs]_vars

\* one player that calls observe and observe_next
NextMono ==
    \/ join_player
    \/ \E session \in Tokens : observe(session)
    \/ DriverFire
    \/ \E session \in Tokens, after_tick \in Ticks : ON_Call(1, session, after_tick)
    \/ ON_Check(1)
    \/ ON_Suspend(1)
    \/ ON_Notified(1)
    \/ ON_WaitTimeout(1)
    \/ ON_ClearWaiting(1)

SpecMono == InitObs /\ [][NextMono]_vars

\* two long-poll callers on the sessions of one match, holding no tick or the first decision tick;
\* the session may leave under them
AfterPair == {0, DecisionStride}

NextPair ==
    \/ join_player
    \/ \E session \in Tokens : leave_player(session)
    \/ DriverFire
    \/ \E c \in Callers, session \in Tokens, after_tick \in AfterPair :
          ON_Call(c, session, after_tick)
    \/ \E c \in Callers : ON_Check(c)
    \/ \E c \in Callers : ON_Suspend(c)
    \/ \E c \in Callers : ON_Notified(c)
    \/ \E c \in Callers : ON_WaitTimeout(c)
    \/ \E c \in Callers : ON_ClearWaiting(c)

SpecPair == InitObs /\ [][NextPair]_vars

\* players that submit actions while the driver steps
\* intended ticks around the current one: one in the past, the current, the next, a later one
IntendedAround(current_tick) ==
    {t \in Ticks : t + 1 >= current_tick /\ t <= current_tick + 2}

NextHost ==
    \/ join_player
    \/ \E session \in Tokens, payload \in {1, MaxAmount},
          intended_tick \in IntendedAround(host.current_tick) :
          submit_action(session, payload, intended_tick)
    \/ DriverFire

SpecHost == Init /\ [][NextHost]_vars


\* ------------------------------------------------ a second run of the same match
\* the submissions of player p in the first run, in the order p made them
RECURSIVE StreamOf(_, _)
StreamOf(subs, p) ==
    IF subs = << >> THEN << >>
    ELSE IF Head(subs).player_id = p THEN << Head(subs) >> \o StreamOf(Tail(subs), p)
    ELSE StreamOf(Tail(subs), p)

\* the first run is over: the match finished or ran its ticks
Run1Done == status.kind = "Finished" \/ host.current_tick = MaxTick

\* the second run accepts player p's next action before its first tick: same
\* payload, same scheduled tick, with an action id of its own
Twin_submit(p) ==
    /\ Run1Done
    /\ twin.host.current_tick = 0
    /\ twin.sent[p] < Len(StreamOf(submitted, p))
    /\ LET item == StreamOf(submitted, p)[twin.sent[p] + 1]
           envelope == [player_id |-> p, action_id |-> twin.next_action_id,
                        intended_tick |-> item.scheduled_tick, payload |-> item.payload]
           r == Host_submit(twin.host, envelope)
       IN /\ r.scheduled_tick = item.scheduled_tick
          /\ twin' = [twin EXCEPT !.host = r.host,
                                  !.next_action_id = @ + 1,
                                  !.sent[p] = @ + 1]
    /\ UNCHANGED mgrVars
    /\ UNCHANGED << shutdown, driver >>
    /\ UNCHANGED callVars
    /\ UNCHANGED << obsTicks, nextTicks, stepLog, submitted >>
    /\ UNCHANGED << srvVars, calc, locks >>

\* the second run has been given every action of the first run
Twin_ready ==
    \A p \in DOMAIN twin.sent : twin.sent[p] = Len(StreamOf(submitted, p))

\* the second run steps a tick the first run has stepped
Twin_step ==
    /\ Run1Done
    /\ Twin_ready
    /\ twin.host.current_tick < host.current_tick
    /\ LET stepped(r) ==
               LET tick == r.host.current_tick
               IN /\ r.stepped
                  /\ twin' = [twin EXCEPT !.host = r.host,
                                          !.events = EventBuffer_push_all(@, tick, r.events),
                                          !.stepLog = MapInsert(@, tick, r.actions)]
       IN stepped(Host_step_one_tick(twin.host))
    /\ UNCHANGED mgrVars
    /\ UNCHANGED << shutdown, driver >>
    /\ UNCHANGED callVars
    /\ UNCHANGED << obsTicks, nextTicks, stepLog, submitted >>
    /\ UNCHANGED << srvVars, calc, locks >>

\* the first run takes its steps until the second run starts
NextDet ==
    \/ twin = Twin_new /\ join_player
    \/ /\ twin = Twin_new
       /\ \E session \in Tokens, payload \in {1, MaxAmount},
             intended_tick \in {host.current_tick, host.current_tick + 2} :
             submit_action(session, payload, intended_tick)
    \/ twin = Twin_new /\ DriverFire
    \/ \E p \in 0..(MaxPlayers - 1) : Twin_submit(p)
    \/ Twin_step

\* every player slot is filled before the first run starts
InitDet == Init /\ required_players = MaxPlayers

SpecDet == InitDet /\ [][NextDet]_vars

\* ------------------------------------------- MatchHandle calls as functions
\* the state behind the match lock
Mgr ==
    [host |-> host, events |-> events, sessions |-> sessions, players |-> players,
     spectators |-> spectators, next_session_id |-> next_session_id,
     next_action_id |-> next_action_id, required_players |-> required_players,
     status |-> status, last_decision_tick |-> last_decision_tick,
     cached_observations |-> cached_observations,
     session_observe_state |-> session_observe_state]

SetMgr(m) ==
    /\ host' = m.host
    /\ events' = m.events
    /\ sessions' = m.sessions
    /\ players' = m.players
    /\ spectators' = m.spectators
    /\ next_session_id' = m.next_session_id
    /\ next_action_id' = m.next_action_id
    /\ required_players' = m.required_players
    /\ status' = m.status
    /\ last_decision_tick' = m.last_decision_tick
    /\ cached_observations' = m.cached_observations
    /\ session_observe_state' = m.session_observe_state

\* variant: the token is handed out but the counter stays
MatchHandle_spectate_SameToken(m) ==
    [m |-> [m EXCEPT !.spectators = @ \cup {m.next_session_id},
                     !.session_observe_state =
                         MapInsert(@, m.next_session_id, NewObserveState)],
     session |-> m.next_session_id]

MatchHandle_spectate(m) ==
    [m |-> [m EXCEPT !.next_session_id = @ + 1,
                     !.spectators = @ \cup {m.next_session_id},
                     !.session_observe_state =
                         MapInsert(@, m.next_session_id, NewObserveState)],
     session |-> m.next_session_id]

\* variant: the match stays in WaitingForPlayers however many have joined
StatusAfterJoin_StillWaiting(new_count, required) == WaitingForPlayers(new_count, required)

\* the status a successful join leaves (lines 164-172)
StatusAfterJoin(new_count, required) ==
    IF new_count >= required THEN Running ELSE WaitingForPlayers(new_count, required)

MatchHandle_join_player(m) ==
    IF m.status.kind = "WaitingForPlayers"
    THEN IF m.status.current >= m.status.required
         THEN [m |-> m, some |-> FALSE]
         ELSE LET player_id == m.host.next_player_id
                  session == m.next_session_id
              IN [m |-> [m EXCEPT !.host.next_player_id = @ + 1,
                                  !.next_session_id = @ + 1,
                                  !.sessions = MapInsert(@, session, player_id),
                                  !.players = MapInsert(@, player_id, session),
                                  !.session_observe_state =
                                      MapInsert(@, session, NewObserveState),
                                  !.status = StatusAfterJoin(m.status.current + 1,
                                                             m.status.required)],
                  some |-> TRUE, session |-> session, player_id |-> player_id]
    ELSE [m |-> m, some |-> FALSE]

\* variant: a leaving player is taken off the count of joined players
MatchHandle_leave_player_Uncount(m, session) ==
    LET m1 == [m EXCEPT !.session_observe_state = MapRemove(@, session)]
    IN IF session \in DOMAIN m.sessions
       THEN [m |-> [m1 EXCEPT !.sessions = MapRemove(@, session),
                              !.players = MapRemove(@, m.sessions[session]),
                              !.status = IF @.kind = "WaitingForPlayers"
                                         THEN WaitingForPlayers(@.current - 1, @.required)
                                         ELSE @],
             left |-> TRUE]
       ELSE [m |-> [m1 EXCEPT !.spectators = @ \ {session}],
             left |-> session \in m.spectators]

MatchHandle_leave_player(m, session) ==
    LET m1 == [m EXCEPT !.session_observe_state = MapRemove(@, session)]
    IN IF session \in DOMAIN m.sessions
       THEN [m |-> [m1 EXCEPT !.sessions = MapRemove(@, session),
                              !.players = MapRemove(@, m.sessions[session])],
             left |-> TRUE]
       ELSE [m |-> [m1 EXCEPT !.spectators = @ \ {session}],
             left |-> session \in m.spectators]

\* variant: the status is looked at before the session
MatchHandle_submit_action_StatusFirst(m, session, payload, intended_tick) ==
    IF m.status.kind \in {"Finished", "Terminated"}
    THEN [m |-> m, result |-> "Terminated"]
    ELSE IF session \notin DOMAIN m.sessions
    THEN [m |-> m, result |-> "InvalidSession"]
    ELSE LET envelope == [player_id |-> m.sessions[session],
                          action_id |-> m.next_action_id,
                          intended_tick |-> intended_tick, payload |-> payload]
             r == Host_submit(m.host, envelope)
         IN [m |-> [m EXCEPT !.next_action_id = @ + 1, !.host = r.host],
             result |-> "Ok", action_id |-> envelope.action_id,
             scheduled_tick |-> r.scheduled_tick, player_id |-> envelope.player_id]

MatchHandle_submit_action(m, session, payload, intended_tick) ==
    IF session \notin DOMAIN m.sessions
    THEN [m |-> m, result |-> "InvalidSession"]
    ELSE IF m.status.kind \in {"Finished", "Terminated"}
    THEN [m |-> m, result |-> "Terminated"]
    ELSE LET envelope == [player_id |-> m.sessions[session],
                          action_id |-> m.next_action_id,
                          intended_tick |-> intended_tick, payload |-> payload]
             r == Host_submit(m.host, envelope)
         IN [m |-> [m EXCEPT !.next_action_id = @ + 1, !.host = r.host],
             result |-> "Ok", action_id |-> envelope.action_id,
             scheduled_tick |-> r.scheduled_tick, player_id |-> envelope.player_id]

MatchHandle_observe(m, session) ==
    IF session \in DOMAIN m.sessions
    THEN [some |-> TRUE,
          obs |-> Game_observe(m.host.game, m.host.current_tick, m.sessions[session])]
    ELSE IF session \in m.spectators
    THEN [some |-> TRUE, obs |-> Game_observe(m.host.game, m.host.current_tick, 0)]
    ELSE [some |-> FALSE]

MatchHandle_poll_events(m, session, cursor) ==
    IF session \notin DOMAIN m.sessions /\ session \notin m.spectators
    THEN [some |-> FALSE]
    ELSE [some |-> TRUE] @@ EventBuffer_get_from_cursor(m.events, cursor)

\* variant: only the shutdown flag is raised, the status is left as it is
MatchHandle_terminate_FlagOnly(m) == m

\* variant: terminating puts the match back into Running
MatchHandle_terminate_Restart(m) == [m EXCEPT !.status = Running]

\* MatchHandle::terminate on the state behind the lock
MatchHandle_terminate(m) == [m EXCEPT !.status = Terminated]


\* ------------------------------------------------------------ GameServer
\* result of a call through the facade
Api(op, id, result) == [op |-> op, id |-> id, result |-> result]

\* ids the facade is called with: the modelled match, or an id that is not registered
NoSuchMatch == 0

\* matches.read(): granted while no terminate_match or shutdown holds the write lock
ReadLock(id) ==
    /\ admin.pc = "idle"
    /\ id = TheMatch \/ id \notin registry.matches

spectate_match(id) ==
    /\ ReadLock(id)
    /\ IF id \notin registry.matches
       THEN /\ api' = Api("spectate_match", id, "NotFound")
            /\ UNCHANGED mgrVars
       ELSE LET r == MatchHandle_spectate(Mgr)
            IN /\ next_session_id <= MaxSessions
               /\ SetMgr(r.m)
               /\ api' = Api("spectate_match", id, "Ok")
    /\ UNCHANGED << shutdown, driver >>
    /\ UNCHANGED callVars
    /\ UNCHANGED histVars
    /\ UNCHANGED << registry, admin, creator, reader, calc >>
    /\ locks' = Dropped(locks)

join_match(id) ==
    /\ ReadLock(id)
    /\ IF id \notin registry.matches
       THEN /\ api' = Api("join_match", id, "NotFound")
            /\ UNCHANGED mgrVars
       ELSE LET r == MatchHandle_join_player(Mgr)
            IN /\ r.some => next_session_id <= MaxSessions
               /\ SetMgr(r.m)
               /\ api' = Api("join_match", id, IF r.some THEN "Ok" ELSE "NotJoinable")
    /\ UNCHANGED << shutdown, driver >>
    /\ UNCHANGED callVars
    /\ UNCHANGED histVars
    /\ UNCHANGED << registry, admin, creator, reader, calc >>
    /\ locks' = Dropped(locks)

leave_match(id, session) ==
    /\ ReadLock(id)
    /\ IF id \notin registry.matches
       THEN /\ api' = Api("leave_match", id, "NotFound")
            /\ UNCHANGED mgrVars
       ELSE LET r == MatchHandle_leave_player(Mgr, session)
            IN /\ SetMgr(r.m)
               /\ api' = Api("leave_match", id, IF r.left THEN "Ok" ELSE "InvalidSession")
    /\ UNCHANGED << shutdown, driver >>
    /\ UNCHANGED callVars
    /\ UNCHANGED histVars
    /\ UNCHANGED << registry, admin, creator, reader, calc >>
    /\ locks' = Dropped(locks)

Server_submit_action(id, session, payload, intended_tick) ==
    /\ ReadLock(id)
    /\ IF id \notin registry.matches
       THEN /\ api' = Api("submit_action", id, "NotFound")
            /\ UNCHANGED mgrVars
            /\ UNCHANGED submitted
       ELSE LET r == MatchHandle_submit_action(Mgr, session, payload, intended_tick)
            IN /\ r.result = "Ok" => next_action_id <= MaxActions
               /\ SetMgr(r.m)
               /\ api' = Api("submit_action", id, r.result)
               /\ submitted' =
                     IF r.result = "Ok"
                     THEN Append(submitted,
                            [player_id |-> r.player_id, action_id |-> r.action_id,
                             payload |-> payload, intended_tick |-> intended_tick,
                             at_tick |-> host.current_tick,
                             scheduled_tick |-> r.scheduled_tick])
                     ELSE submitted
    /\ UNCHANGED << shutdown, driver >>
    /\ UNCHANGED callVars
    /\ UNCHANGED << obsTicks, nextTicks, stepLog, twin >>
    /\ UNCHANGED << registry, admin, creator, reader, calc >>
    /\ locks' = Dropped(locks)

Server_observe(id, session) ==
    /\ ReadLock(id)
    /\ IF id \notin registry.matches
       THEN api' = Api("observe", id, "NotFound")
       ELSE api' = Api("observe", id,
                       IF MatchHandle_observe(Mgr, session).some THEN "Ok"
                       ELSE "InvalidSession")
    /\ UNCHANGED mgrVars
    /\ UNCHANGED << shutdown, driver >>
    /\ UNCHANGED callVars
    /\ UNCHANGED histVars
    /\ UNCHANGED << registry, admin, creator, reader, calc >>
    /\ locks' = Dropped(locks)

\* the reader polls with the cursor its last poll returned
Server_poll_events(id, session) ==
    /\ ReadLock(id)
    /\ IF id \notin registry.matches
       THEN /\ api' = Api("poll_events", id, "NotFound")
            /\ UNCHANGED reader
       ELSE LET r == MatchHandle_poll_events(Mgr, session, reader.cursor)
            IN IF r.some
               THEN /\ api' = Api("poll_events", id, "Ok")
                    /\ reader' = [cursor |-> r.cursor, log |-> reader.log \o r.events]
               ELSE /\ api' = Api("poll_events", id, "InvalidSession")
                    /\ UNCHANGED reader
    /\ UNCHANGED mgrVars
    /\ UNCHANGED << shutdown, driver >>
    /\ UNCHANGED callVars
    /\ UNCHANGED histVars
    /\ UNCHANGED << registry, admin, creator, calc >>
    /\ locks' = Dropped(locks)

\* run_tick_loop: the interval fires and the shutdown flag is tested
DriverWake ==
    /\ driver = "running"
    /\ shutdown \/ status.kind # "Running" \/ host.current_tick < TickLimit
    /\ driver' = IF shutdown THEN "exited" ELSE "stepping"
    /\ UNCHANGED mgrVars
    /\ UNCHANGED shutdown
    /\ UNCHANGED callVars
    /\ UNCHANGED << histVars, srvVars, calc, locks >>

\* run_tick_loop: step_one_tick is called; the loop ends when it reports a finished match
DriverStep ==
    /\ driver = "stepping"
    /\ StepOneTick
    /\ driver' = IF status'.kind \in {"Finished", "Terminated"} THEN "exited" ELSE "running"
    /\ UNCHANGED << sessions, players, spectators, next_session_id, next_action_id,
                    required_players, session_observe_state, shutdown >>
    /\ UNCHANGED << pc, call, ret, called, peerRes >>
    /\ UNCHANGED << obsTicks, nextTicks, submitted, twin >>
    /\ UNCHANGED << srvVars, calc >>
    /\ locks' = Dropped(locks)

\* terminate_match up to the point where it awaits the driver task; the write lock is held
terminate_match(id) ==
    /\ admin.pc = "idle"
    /\ IF id \in registry.matches
       THEN /\ registry' = [registry EXCEPT !.matches = @ \ {id}]
            /\ IF id = TheMatch
               THEN /\ SetMgr(MatchHandle_terminate(Mgr))
                    /\ notified' = NotifyWaiters
                    /\ shutdown' = TRUE
                    /\ admin' = [pc |-> "awaiting", op |-> "terminate_match", id |-> id]
                    /\ UNCHANGED api
               ELSE /\ api' = Api("terminate_match", id, "Ok")
                    /\ UNCHANGED mgrVars
                    /\ UNCHANGED << notified, shutdown, admin >>
       ELSE /\ api' = Api("terminate_match", id, "NotFound")
            /\ UNCHANGED mgrVars
            /\ UNCHANGED << notified, shutdown, admin, registry >>
    /\ UNCHANGED << driver, pc, call, ret, called, peerRes >>
    /\ UNCHANGED histVars
    /\ locks' = IF id \in registry.matches /\ id = TheMatch
                THEN Dropped(locks)
                ELSE [locks EXCEPT !.writer = "none"]
    /\ UNCHANGED << creator, reader, calc >>

\* shutdown up to the point where it awaits the driver task: the map is drained and
\* request_shutdown is called on the entry
GameServer_shutdown ==
    /\ admin.pc = "idle"
    /\ registry' = [registry EXCEPT !.matches = {}]
    /\ IF TheMatch \in registry.matches
       THEN /\ shutdown' = TRUE
            /\ admin' = [pc |-> "awaiting", op |-> "shutdown", id |-> 0]
            /\ UNCHANGED api
       ELSE /\ api' = Api("shutdown", 0, "Ok")
            /\ UNCHANGED << shutdown, admin >>
    /\ UNCHANGED mgrVars
    /\ UNCHANGED << driver, pc, call, notified, ret, called, peerRes >>
    /\ UNCHANGED histVars
    /\ locks' = IF TheMatch \in registry.matches THEN locks
                ELSE [locks EXCEPT !.writer = "none"]
    /\ UNCHANGED << creator, reader, calc >>

\* entry.task.await completes: the driver has left its loop, the call returns
AdminReturn ==
    /\ admin.pc = "awaiting"
    /\ driver = "exited"
    /\ admin' = AdminIdle
    /\ api' = Api(admin.op, admin.id, "Ok")
    /\ UNCHANGED mgrVars
    /\ locks' = [locks EXCEPT !.writer = "none"]
    /\ UNCHANGED << shutdown, driver >>
    /\ UNCHANGED callVars
    /\ UNCHANGED histVars
    /\ UNCHANGED << registry, creator, reader, calc >>

\* variant: the id is taken before the size test
CreateCheck_IdFirst(k) ==
    /\ admin.pc = "idle"
    /\ creator[k] = CreatorIdle
    /\ registry.next_match_id <= MaxMatchId
    /\ registry' = [registry EXCEPT !.next_match_id = @ + 1]
    /\ IF Cardinality(registry.matches) >= MaxMatches
       THEN /\ api' = Api("create_match", 0, "TooManyMatches")
            /\ UNCHANGED creator
       ELSE /\ creator' = [creator EXCEPT ![k] = [pc |-> "spawned",
                                                  id |-> registry.next_match_id]]
            /\ UNCHANGED api
    /\ UNCHANGED mgrVars
    /\ UNCHANGED << shutdown, driver >>
    /\ UNCHANGED callVars
    /\ UNCHANGED histVars
    /\ UNCHANGED << admin, reader, calc, locks >>

\* create_match_with_players up to drop(matches): the size test under the read lock,
\* then the id is taken and the driver of the new match is spawned
CreateCheck(k) ==
    /\ admin.pc = "idle"
    /\ creator[k] = CreatorIdle
    /\ IF Cardinality(registry.matches) >= MaxMatches
       THEN /\ api' = Api("create_match", 0, "TooManyMatches")
            /\ UNCHANGED << registry, creator >>
       ELSE /\ registry.next_match_id <= MaxMatchId
            /\ creator' = [creator EXCEPT ![k] = [pc |-> "spawned",
                                                  id |-> registry.next_match_id]]
            /\ registry' = [registry EXCEPT !.next_match_id = @ + 1]
            /\ UNCHANGED api
    /\ UNCHANGED mgrVars
    /\ UNCHANGED << shutdown, driver >>
    /\ UNCHANGED callVars
    /\ UNCHANGED histVars
    /\ UNCHANGED << admin, reader, calc, locks >>

\* create_match_with_players from matches.write(): the entry is inserted
CreateInsert(k) ==
    /\ admin.pc = "idle"
    /\ creator[k].pc = "spawned"
    /\ registry' = [registry EXCEPT !.matches = @ \cup {creator[k].id}]
    /\ creator' = [creator EXCEPT ![k] = CreatorIdle]
    /\ api' = Api("create_match", creator[k].id, "Ok")
    /\ UNCHANGED mgrVars
    /\ UNCHANGED << shutdown, driver >>
    /\ UNCHANGED callVars
    /\ UNCHANGED histVars
    /\ UNCHANGED << admin, reader, calc, locks >>


\* variant: the read side of the registry lock is kept during the call on the handle
Server_observe_next_KeepRead(c, id, session, after_tick) ==
    /\ ReadLock(id)
    /\ UNCHANGED locks
    /\ IF id \notin registry.matches
       THEN /\ api' = Api("observe_next", id, "NotFound")
            /\ UNCHANGED mgrVars
            /\ UNCHANGED << shutdown, driver >>
            /\ UNCHANGED callVars
            /\ UNCHANGED histVars
            /\ UNCHANGED << registry, admin, creator, reader, calc >>
       ELSE ON_Enter(c, session, after_tick)

\* observe_next through the facade: the handle is cloned under the read lock
Server_observe_next(c, id, session, after_tick) ==
    /\ ReadLock(id)
    /\ locks' = [locks EXCEPT !.read[c] = "none"]
    /\ IF id \notin registry.matches
       THEN /\ api' = Api("observe_next", id, "NotFound")
            /\ UNCHANGED mgrVars
            /\ UNCHANGED << shutdown, driver >>
            /\ UNCHANGED callVars
            /\ UNCHANGED histVars
            /\ UNCHANGED << registry, admin, creator, reader, calc >>
       ELSE ON_Enter(c, session, after_tick)

MatchArgs == {TheMatch, NoSuchMatch}

\* a submit of the largest amount for the current tick
SubmitNow(session) == Server_submit_action(TheMatch, session, MaxAmount, host.current_tick)

\* clients of one match calling through the facade while the driver steps and the
\* match may be terminated
NextApi ==
    \/ spectate_match(TheMatch)
    \/ join_match(TheMatch)
    \/ \E session \in Tokens : leave_match(TheMatch, session)
    \/ \E session \in Tokens : SubmitNow(session)
    \/ \E session \in Tokens : Server_observe(TheMatch, session)
    \/ DriverWake
    \/ DriverStep
    \/ \E id \in MatchArgs : terminate_match(id)
    \/ AdminReturn

SpecApi == Init /\ [][NextApi]_vars

\* the same clients, polling the ring too, on a match of one required player
NextTerm ==
    \/ NextApi
    \/ \E session \in Tokens : Server_poll_events(TheMatch, session)

SpecTerm == InitObs /\ [][NextTerm]_vars


\* no session has been issued yet
Pristine == next_session_id = 1

\* nothing but joins, leaves and terminate_match has been called so far
LongPollRun ==
    /\ spectators = {}
    /\ next_action_id = 1
    /\ reader = Reader_new
    /\ registry.next_match_id = TheMatch + 1
    /\ api.op \in {"none", "join_match", "leave_match", "terminate_match"}

\* calls of the facade. A run exercises every call but observe_next, with create_match
\* called before the first session, one spectator and one accepted action at most, and
\* may then turn to two long-poll callers of the first token, with that token leaving
\* under them
FacadeCall ==
    \/ called = {} /\ join_match(TheMatch)
    \/ \E session \in Tokens : called = {} /\ leave_match(TheMatch, session)
    \/ \E id \in MatchArgs : called = {} /\ terminate_match(id)
    \/ called = {} /\ spectators = {} /\ spectate_match(TheMatch)
    \/ \E session \in Tokens : called = {} /\ next_action_id = 1 /\ SubmitNow(session)
    \/ \E session \in Tokens : called = {} /\ Server_observe(TheMatch, session)
    \/ \E session \in Tokens : called = {} /\ Server_poll_events(TheMatch, session)
    \/ called = {} /\ Pristine /\ CreateCheck(1)
    \/ called # {} /\ leave_match(TheMatch, 1)
    \/ \E c \in Callers :
          LongPollRun /\ Server_observe_next(c, TheMatch, 1, DecisionStride)

\* the calls beside a driver that runs up to the first decision tick
NextErr ==
    \/ FacadeCall
    \/ Pristine /\ CreateInsert(1)
    \/ AdminReturn
    \/ (shutdown \/ host.current_tick < DecisionStride) /\ DriverWake
    \/ DriverStep
    \/ \E c \in Callers : ON_Check(c)
    \/ \E c \in Callers : ON_Suspend(c)
    \/ \E c \in Callers : ON_Notified(c)
    \/ \E c \in Callers : ON_WaitTimeout(c)
    \/ \E c \in Callers : ON_ClearWaiting(c)

SpecErr == InitObs /\ [][NextErr]_vars


\* ------------------------------------------------- what the ring was given
\* the game after tick t, replayed from the actions each tick was stepped with
RECURSIVE GameAt(_)
GameAt(t) ==
    IF t = 0 THEN Game_new(Target)
    ELSE Game_step(GameAt(t - 1), t,
                   IF t \in DOMAIN stepLog THEN stepLog[t] ELSE << >>).game

\* the events of ticks 1..t in the order they were pushed, without sequence numbers
RECURSIVE PushedUpTo(_)
PushedUpTo(t) ==
    IF t = 0 THEN << >>
    ELSE LET at(evs) == [i \in 1..Len(evs) |-> [tick |-> t, event |-> evs[i]]]
         IN PushedUpTo(t - 1)
               \o at(Game_step(GameAt(t - 1), t,
                               IF t \in DOMAIN stepLog THEN stepLog[t] ELSE << >>).events)

\* every event pushed so far as the ServerEvent it was stored as
Pushed ==
    LET stored(all) == [i \in 1..Len(all) |->
                           [sequence |-> i - 1, tick |-> all[i].tick, event |-> all[i].event]]
    IN stored(PushedUpTo(host.current_tick))

\* a player that submits amounts for the current tick, and a client that polls the ring
\* with the cursor of its last poll; the ring has any capacity up to the configured one
InitRing == \E capacity \in 0..EventCapacity : InitWith(capacity) /\ required_players = 1

NextRing ==
    \/ join_match(TheMatch)
    \/ \E session \in Tokens, payload \in Amounts :
          Server_submit_action(TheMatch, session, payload, host.current_tick)
    \/ \E session \in Tokens : Server_poll_events(TheMatch, session)
    \/ DriverWake
    \/ DriverStep

SpecRing == InitRing /\ [][NextRing]_vars


\* a client that long-polls for decision ticks and polls the ring, beside a player that
\* submits and the driver
NextCoherent ==
    \/ join_match(TheMatch)
    \/ \E session \in Tokens : SubmitNow(session)
    \/ \E session \in Tokens : Server_poll_events(TheMatch, session)
    \/ DriverWake
    \/ DriverStep
    \/ \E session \in Tokens, after_tick \in AfterPair :
          Server_observe_next(1, TheMatch, session, after_tick)
    \/ ON_Check(1)
    \/ ON_Suspend(1)
    \/ ON_Notified(1)
    \/ ON_WaitTimeout(1)
    \/ ON_ClearWaiting(1)

SpecCoherent == InitObs /\ [][NextCoherent]_vars


\* two callers of create_match beside terminate_match on any id and players joining
MatchIds == 1..MaxMatchId

NextRegistry ==
    \/ \E k \in Creators : CreateCheck(k)
    \/ \E k \in Creators : CreateInsert(k)
    \/ \E id \in MatchIds : terminate_match(id)
    \/ AdminReturn
    \/ join_match(TheMatch)
    \/ DriverWake
    \/ DriverStep

SpecRegistry == Init /\ [][NextRegistry]_vars


\* players of a match that is shut down with the server
NextShutdown ==
    \/ join_match(TheMatch)
    \/ \E session \in Tokens : SubmitNow(session)
    \/ DriverWake
    \/ DriverStep
    \/ GameServer_shutdown
    \/ AdminReturn

SpecShutdown == Init /\ [][NextShutdown]_vars


\* ------------------------------------------------ action scheduling (host)
\* the envelope the host stores for an accepted submission
EnvelopeOf(s) ==
    [player_id |-> s.player_id, action_id |-> s.action_id,
     intended_tick |-> s.scheduled_tick, payload |-> s.payload]

\* number of positions of seq that hold e
Occurrences(seq, e) == Cardinality({i \in 1..Len(seq) : seq[i] = e})

Bucket(t) == IF t \in DOMAIN host.pending_actions THEN host.pending_actions[t] ELSE << >>

Stepped(t) == IF t \in DOMAIN stepLog THEN stepLog[t] ELSE << >>

\* C7: a submission with intended tick T made at current tick t is scheduled at
\* max(T, t + 1): at T when T is in the future, at t + 1 when T is the current
\* tick or earlier; that tick is the returned one, and the envelope is appended
\* to the schedule's bucket of exactly that tick and to no other.
C7_ScheduledAtMax ==
    [][next_action_id' # next_action_id =>
         LET s == submitted'[Len(submitted')]
             T == s.intended_tick
             t == host.current_tick
             sched == s.scheduled_tick
         IN /\ submitted' = Append(submitted, s)
            /\ s.action_id = next_action_id
            /\ s.at_tick = t
            /\ sched = Max(T, t + 1)
            /\ (T > t => sched = T)
            /\ (T <= t => sched = t + 1)
            /\ host'.pending_actions[sched] = Append(Bucket(sched), EnvelopeOf(s))
            /\ \A u \in (DOMAIN host'.pending_actions) \ {sched} :
                  u \in DOMAIN host.pending_actions
                  /\ host'.pending_actions[u] = host.pending_actions[u]
    ]_vars

\* C7 witness: a submission for an earlier tick was moved to the next tick, and
\* one for a future tick kept its tick
C7_Witness ==
    /\ \E s \in Submissions : s.at_tick > 0 /\ s.intended_tick < s.at_tick
                            /\ s.scheduled_tick = s.at_tick + 1
    /\ \E s \in Submissions : s.intended_tick > s.at_tick + 1
                            /\ s.scheduled_tick = s.intended_tick

\* C8: every accepted submission is passed to the game's step exactly once, at
\* its scheduled tick max(T, t + 1): before that tick is stepped it sits once in
\* the schedule under that tick and in no step; afterwards it is in that tick's
\* step once, in no other step, and no longer in the schedule. No bucket
\* remains under a tick that has already been stepped.
C8_SteppedExactlyOnce ==
    /\ \A u \in DOMAIN host.pending_actions : u > host.current_tick
    /\ \A s \in Submissions :
          LET sched == Max(s.intended_tick, s.at_tick + 1)
              e == [player_id |-> s.player_id, action_id |-> s.action_id,
                    intended_tick |-> sched, payload |-> s.payload]
          IN /\ \A u \in Ticks \cup {MaxTick + 1} :
                   /\ u # sched => Occurrences(Stepped(u), e) = 0 /\ Occurrences(Bucket(u), e) = 0
             /\ IF sched <= host.current_tick
                THEN Occurrences(Stepped(sched), e) = 1 /\ Occurrences(Bucket(sched), e) = 0
                ELSE Occurrences(Stepped(sched), e) = 0 /\ Occurrences(Bucket(sched), e) = 1

\* C8 witness: one submission has been stepped and another is still scheduled
C8_Witness ==
    /\ \E s \in Submissions : s.scheduled_tick <= host.current_tick
                            /\ Occurrences(Stepped(s.scheduled_tick), EnvelopeOf(s)) = 1
    /\ \E s \in Submissions : s.scheduled_tick > host.current_tick

\* C9: the actions a tick's step receives are in ascending (player_id, action_id)
\* order whatever order they were submitted in, and they are exactly the
\* envelopes scheduled for that tick.
C9_SortedByPlayerThenAction ==
    \A t \in DOMAIN stepLog :
        /\ \A i \in 1..Len(stepLog[t]) : \A j \in 1..Len(stepLog[t]) :
              i < j => KeyLess(stepLog[t][i], stepLog[t][j])
        /\ {stepLog[t][i] : i \in 1..Len(stepLog[t])} =
              {EnvelopeOf(s) : s \in {x \in Submissions : x.scheduled_tick = t}}

\* C9 witness: a step received two actions in the opposite of their arrival order
C9_Witness ==
    \E t \in DOMAIN stepLog :
        /\ Len(stepLog[t]) = 2
        /\ stepLog[t][1].action_id > stepLog[t][2].action_id
        /\ stepLog[t][1].player_id < stepLog[t][2].player_id


\* ------------------------------------------------ observation ticks per session
\* C1 (as stated): every observation a session receives from observe_next has a
\* tick at least as large as every tick the session received before, from
\* observe_next or from observe.
C1_TicksNeverDecrease ==
    \A c \in Callers :
        ret[c].kind = "ok" => ret[c].tick >= ret[c].prev /\ ret[c].tick >= ret[c].held

\* C1 (amended): the ticks of a session's observe_next results with
\* timed_out = false never decrease, and a cached decision-tick result is
\* strictly newer than every such result the session received before.
C1_DecisionTicksIncrease ==
    \A c \in Callers :
        ret[c].kind = "ok" /\ ~ret[c].timed_out =>
            /\ ret[c].tick >= ret[c].prev
            /\ ~ret[c].boot => ret[c].tick > ret[c].prev

\* C1 witness: a session received a cached observation after an earlier cached one
C1_Witness ==
    \E c \in Callers :
        /\ ret[c].kind = "ok" /\ ~ret[c].timed_out /\ ~ret[c].boot
        /\ ret[c].prev > 0
        /\ ret[c].tick > ret[c].prev


\* ------------------------------------------------ one waiter per session
\* caller c is inside the wait of observe_next: is_waiting set and not yet cleared
Suspended(c) == pc[c] \in {"prewait", "waiting", "clear"}

\* C4 (as stated): of two calls on one session that overlap in time, exactly
\* one fails with AlreadyWaiting and the other does not.
C4_ExactlyOneAlreadyWaiting ==
    \A c \in Callers :
        ret[c].kind # "none" /\ ret[c].peer # "none" =>
            (ret[c].kind = "AlreadyWaiting") # (ret[c].peer = "AlreadyWaiting")

\* C4 (amended): at most one call per session is suspended at a time; a call
\* on a session of the match fails with AlreadyWaiting exactly when it takes
\* the lock while another call of its session is suspended, and that other
\* call is left as it was.
C4_FailsOnlyBesideWaiter ==
    /\ [](\A c \in Callers : \A d \in Callers :
             c # d /\ Suspended(c) /\ Suspended(d) => call[c].session # call[d].session)
    /\ [][\A c \in Callers :
            pc[c] = "check" /\ pc'[c] # "check" =>
               LET beside == \E d \in Callers \ {c} :
                                /\ call[d].session = call[c].session
                                /\ Suspended(d)
                                /\ pc'[d] = pc[d]
                                /\ call'[d] = call[d]
                   live == call[c].session \in DOMAIN session_observe_state
               IN /\ (pc'[c] = "idle" /\ ret'[c].kind = "AlreadyWaiting") <=> (live /\ beside)
                  /\ beside => session_observe_state' = session_observe_state
         ]_vars

\* C4 witness: a call failed with AlreadyWaiting while the other call of its
\* session is waiting
C4_Witness ==
    \E c \in Callers : \E d \in Callers \ {c} :
        /\ pc[c] = "idle" /\ ret[c].kind = "AlreadyWaiting"
        /\ pc[d] = "waiting" /\ call[d].session = call[c].session


\* ------------------------------------------------ what observe_next returns
\* caller c returns from observe_next in this step
Returns(c) == pc[c] = "check" /\ pc'[c] = "idle"

\* C2 (as stated): outside the bootstrap case, no observe_next call returns an
\* observation whose tick is at or below its after_tick with timed_out = false.
C2_NoOldTickWithoutTimeout ==
    \A c \in Callers :
        ret[c].kind = "ok" /\ ~ret[c].timed_out /\ ~ret[c].boot =>
            ret[c].tick > call[c].after_tick

\* C3 (as stated): an observe_next result with timed_out = false outside the
\* bootstrap case is the observation of a decision tick D that is above
\* after_tick and above the session's last_observed_tick, and the call records
\* last_observed_tick = D.
C3_ReturnsDecisionTickRecorded ==
    [][\A c \in Callers :
          Returns(c) /\ ret'[c].kind = "ok" /\ ~ret'[c].timed_out
          /\ ~(call[c].after_tick = 0 /\ last_decision_tick = 0) =>
             LET session == call[c].session
                 D == session_observe_state'[session].last_observed_tick
             IN /\ ret'[c].tick = D
                /\ IsDecisionTick(D)
                /\ D > call[c].after_tick
                /\ D > session_observe_state[session].last_observed_tick
      ]_vars

\* C5 (as stated): a call that has been waiting and takes the lock again after
\* the match was terminated returns; it does not go back to waiting for the
\* rest of max_wait_ms.
C5_TerminateReleasesWaiter ==
    [][\A c \in Callers :
          status.kind = "Terminated" /\ pc[c] = "check" /\ call[c].waited
          /\ pc'[c] # pc[c] => pc'[c] = "idle"
      ]_vars

\* C6 (as stated): the first observe_next call of a session, made with
\* after_tick = 0, never suspends and never returns timed_out = true.
C6_FirstCallReturnsAtOnce ==
    \A c \in Callers :
        call[c].first /\ call[c].after_tick = 0 =>
            /\ ~Suspended(c)
            /\ pc[c] = "idle" /\ ret[c].kind = "ok" => ~ret[c].timed_out


\* ------------------------------------------------ determinism across submitters
\* what the game sees of an action list
PlayerPayloads(actions) ==
    [i \in 1..Len(actions) |-> << actions[i].player_id, actions[i].payload >>]

\* C10: when a second run receives every player's actions in the same
\* per-player order and on the same scheduled ticks, but interleaved
\* differently across players (so with other action ids), every step of it
\* receives the same (player_id, payload) list as the first run's step, and
\* once both runs have stepped the same ticks their game state, terminal
\* outcome and emitted events are the same.
C10_SameStepsInBothRuns ==
    /\ \A t \in DOMAIN twin.stepLog :
          /\ t \in DOMAIN stepLog
          /\ PlayerPayloads(twin.stepLog[t]) = PlayerPayloads(stepLog[t])
    /\ twin.host.current_tick = host.current_tick =>
          /\ twin.host.game = host.game
          /\ Game_is_terminal(twin.host.game) = Game_is_terminal(host.game)
          /\ twin.events = events

\* C10 witness: both runs stepped a tick with two players' actions that got
\* different action ids in the two runs, and the first run sorted them out of
\* their arrival order
C10_Witness ==
    \E t \in DOMAIN twin.stepLog :
        /\ Len(stepLog[t]) = 2
        /\ stepLog[t][1].player_id # stepLog[t][2].player_id
        /\ stepLog[t][1].payload # stepLog[t][2].payload
        /\ stepLog[t][1].action_id > stepLog[t][2].action_id
        /\ twin.stepLog[t][1].action_id < twin.stepLog[t][2].action_id
        /\ twin.host.current_tick = host.current_tick


\* -------------------------------------------------------- match lifecycle
\* the latest call through the facade after the step is op, and it returned result
Called(op, result) == api'.op = op /\ api'.result = result

\* C11: the status starts as WaitingForPlayers and changes only by a join that counts one
\* more player (to Running when the count reaches the required number), by the driver's
\* step from Running to Finished with the outcome of the now terminal game, or by
\* terminate_match to Terminated; Finished and Terminated are never left for an earlier
\* status, Terminated is never left at all
C11_StatusOneWay ==
    /\ status = WaitingForPlayers(0, required_players)
    /\ [][status' # status =>
            \/ /\ status.kind = "WaitingForPlayers"
               /\ Called("join_match", "Ok")
               /\ host'.next_player_id = host.next_player_id + 1
               /\ status' = IF status.current + 1 = status.required THEN Running
                            ELSE WaitingForPlayers(status.current + 1, status.required)
            \/ /\ status.kind = "Running"
               /\ driver = "stepping"
               /\ Game_is_terminal(host'.game) # "None"
               /\ status' = Finished(Game_is_terminal(host'.game))
            \/ /\ status.kind # "Terminated"
               /\ admin'.op = "terminate_match"
               /\ status' = Terminated]_vars

\* a match that finished, was then terminated, and refused a join after that
C11_Witness ==
    /\ status = Terminated
    /\ Game_is_terminal(host.game) = "Win"
    /\ api.op = "join_match"
    /\ api.result = "NotFound"


\* C12: while fewer players than required have joined, the status is WaitingForPlayers with
\* the number of successful joins as its count and the tick is 0; each successful join
\* gives the next player id in join order, starting at 0, and the join that reaches the
\* required number switches to Running in the same step; a join in any other status is
\* refused as NotJoinable and changes nothing
C12_JoinGating ==
    /\ [](status.kind = "WaitingForPlayers" =>
            /\ status = WaitingForPlayers(host.next_player_id, required_players)
            /\ host.next_player_id < required_players
            /\ host.current_tick = 0)
    /\ [](status.kind \in {"Running", "Finished"} =>
            /\ host.next_player_id = required_players
            /\ \A p \in DOMAIN players : p < required_players)
    /\ [][host'.next_player_id # host.next_player_id =>
            /\ Called("join_match", "Ok")
            /\ status.kind = "WaitingForPlayers"
            /\ host'.next_player_id = host.next_player_id + 1
            /\ players' = MapInsert(players, host.next_player_id, next_session_id)
            /\ sessions' = MapInsert(sessions, next_session_id, host.next_player_id)
            /\ status' = IF host'.next_player_id = required_players THEN Running
                         ELSE WaitingForPlayers(host'.next_player_id, required_players)]_vars
    /\ [][/\ api' # api
          /\ api'.op = "join_match"
          /\ TheMatch \in registry.matches
          /\ status.kind # "WaitingForPlayers"
          => /\ api'.result = "NotJoinable"
             /\ UNCHANGED mgrVars]_vars

\* two players were required and joined as ids 0 and 1, and a third join was refused
C12_Witness ==
    /\ required_players = MaxPlayers
    /\ status = Running
    /\ host.next_player_id = MaxPlayers
    /\ DOMAIN players = 0..(MaxPlayers - 1)
    /\ api = Api("join_match", TheMatch, "NotJoinable")


\* C14: a submit on the registered match returns InvalidSession when the token is not a
\* live player session (a spectator, an unknown or a departed token), whatever the status;
\* otherwise Terminated when the status is Finished or Terminated; otherwise it succeeds,
\* takes the next action id and schedules the action. A refused submit leaves the
\* schedule and the action id counter as they were
C14_SubmitGate ==
    [][\A session \in Tokens :
          TheMatch \in registry.matches /\ api'.op = "submit_action" /\ SubmitNow(session) =>
             /\ api'.result =
                   IF session \notin DOMAIN sessions THEN "InvalidSession"
                   ELSE IF status.kind \in {"Finished", "Terminated"} THEN "Terminated"
                   ELSE "Ok"
             /\ api'.result = "Ok" =>
                   /\ status.kind \in {"WaitingForPlayers", "Running"}
                   /\ next_action_id' = next_action_id + 1
                   /\ \E t \in DOMAIN host'.pending_actions :
                         /\ t > host.current_tick
                         /\ Len(Bucket(t)') = Len(Bucket(t)) + 1
                         /\ Bucket(t)'[Len(Bucket(t)')].player_id = sessions[session]
                         /\ Bucket(t)'[Len(Bucket(t)')].action_id = next_action_id
             /\ api'.result # "Ok" =>
                   /\ host' = host
                   /\ next_action_id' = next_action_id
                   /\ submitted' = submitted]_vars

\* after an accepted submit the match finished; a spectator is present and the latest
\* submit was refused for its token, not for the status
C14_Witness ==
    /\ status.kind = "Finished"
    /\ next_action_id > 1
    /\ spectators # {}
    /\ api = Api("submit_action", TheMatch, "InvalidSession")


\* ------------------------------------------------------ precondition errors
PreconditionErrors ==
    {"NotFound", "InvalidSession", "NotJoinable", "MatchFull", "Terminated",
     "AlreadyWaiting", "TooManyMatches"}

\* a call of the facade that returns within the step
DirectCall ==
    \/ spectate_match(TheMatch)
    \/ join_match(TheMatch)
    \/ \E session \in Tokens : leave_match(TheMatch, session)
    \/ \E session \in Tokens : SubmitNow(session)
    \/ \E session \in Tokens : Server_observe(TheMatch, session)
    \/ \E session \in Tokens : Server_poll_events(TheMatch, session)
    \/ \E id \in MatchArgs : terminate_match(id) /\ admin' = admin
    \/ CreateCheck(1) /\ creator' = creator
    \/ \E c \in Callers : Server_observe_next(c, TheMatch, 1, DecisionStride) /\ pc' = pc

C15_RingWindow ==
    LET n == events.next_sequence
        oldest == Max(0, n - events.capacity)
        pushed == Pushed
    IN /\ events.capacity >= 1
       /\ n = Len(pushed)
       /\ {events.buffer[i] : i \in DOMAIN events.buffer} \ {None}
             = {pushed[q + 1] : q \in oldest..(n - 1)}
       /\ \A cursor \in 0..(n + 1) :
             LET r == EventBuffer_get_from_cursor(events, cursor)
                 lo == Max(cursor, oldest)
             IN /\ r.cursor = n
                /\ r.events = SubSeq(pushed, lo + 1, n)

\* more events were pushed than the ring of capacity two or more holds, one of them an
\* increment that is still retained
C15_Witness ==
    /\ events.capacity > 1
    /\ events.next_sequence > events.capacity
    /\ \E i \in DOMAIN events.buffer :
          events.buffer[i] # None /\ events.buffer[i].event.type = "Incremented"


\* the events the poll of this step returned
Received == SubSeq(reader'.log, Len(reader.log) + 1, Len(reader'.log))

\* C16: a reader that starts at cursor 0 and always passes the cursor of its last poll has
\* received pushed events only, each at most once and in the order of their sequence
\* numbers; a poll leaves out events pushed since the previous poll only when more than
\* capacity events were pushed since then, and then the first event it returns has a
\* sequence number above the cursor that was passed
C16_ReaderInOrder ==
    /\ [](LET pushed == Pushed
          IN /\ reader.cursor <= Len(pushed)
             /\ \A i \in DOMAIN reader.log :
                   /\ reader.log[i].sequence < reader.cursor
                   /\ reader.log[i] = pushed[reader.log[i].sequence + 1]
                   /\ i > 1 => reader.log[i - 1].sequence < reader.log[i].sequence)
    /\ [][api' = Api("poll_events", TheMatch, "Ok")
            /\ (\E session \in Tokens : Server_poll_events(TheMatch, session)) =>
            LET pushed == Pushed
                since == Len(pushed) - reader.cursor
                all == SubSeq(pushed, reader.cursor + 1, Len(pushed))
            IN /\ reader'.cursor = Len(pushed)
               /\ since <= events.capacity => Received = all
               /\ since > events.capacity =>
                     /\ Received = SubSeq(all, since - events.capacity + 1, since)
                     /\ Received[1].sequence > reader.cursor]_vars

\* the reader has polled before and after the ring overflowed: its log has a gap
C16_Witness ==
    /\ Len(reader.log) >= 2
    /\ \E i \in 2..Len(reader.log) : reader.log[i].sequence > reader.log[i - 1].sequence + 1
    /\ reader.cursor = events.next_sequence


\* C17: the ring always holds the events of every step the match has taken, so the events
\* of a decision tick are in it as soon as its observation is in the cache; a client whose
\* long-poll returned the cached observation of tick D and that polls afterwards gets
\* every event of a tick up to D that is at or after its cursor and still in the ring
C17_EventsWithObservation ==
    /\ [](/\ events.next_sequence = Len(Pushed)
          /\ last_decision_tick <= host.current_tick
          /\ \A p \in DOMAIN cached_observations :
                cached_observations[p].tick <= last_decision_tick)
    /\ [][api' = Api("poll_events", TheMatch, "Ok")
            /\ pc[1] = "idle" /\ ret[1].kind = "ok" /\ ~ret[1].timed_out /\ ~ret[1].boot
            /\ (\E session \in Tokens : Server_poll_events(TheMatch, session))
            => \A q \in DOMAIN Pushed :
                  /\ Pushed[q].tick <= ret[1].tick
                  /\ Pushed[q].sequence >= reader.cursor
                  /\ Pushed[q].sequence >= OldestAvailable(events)
                  => \E i \in DOMAIN Received : Received[i] = Pushed[q]]_vars

\* the long-poll returned the cached observation of a decision tick, and the poll after it
\* returned the events of that tick, an increment among them
C17_Witness ==
    /\ pc[1] = "idle"
    /\ ret[1].kind = "ok"
    /\ ~ret[1].timed_out
    /\ ~ret[1].boot
    /\ ret[1].tick = DecisionStride
    /\ api = Api("poll_events", TheMatch, "Ok")
    /\ \E i \in DOMAIN reader.log :
          /\ reader.log[i].tick = DecisionStride
          /\ reader.log[i].event.type = "Incremented"
    /\ reader.cursor = events.next_sequence


\* ----------------------------------------------------------------- registry
\* C18: the registry never holds more than max_matches matches
C18_AtMostMaxMatches == Cardinality(registry.matches) <= MaxMatches


\* a call on the match that returns within the step
PerMatchCall ==
    \/ spectate_match(TheMatch)
    \/ join_match(TheMatch)
    \/ \E session \in Tokens : leave_match(TheMatch, session)
    \/ \E session \in Tokens : SubmitNow(session)
    \/ \E session \in Tokens : Server_observe(TheMatch, session)
    \/ \E session \in Tokens : Server_poll_events(TheMatch, session)

C20_ShutdownTerminates == api.op = "shutdown" => status = Terminated

\* ---------------------------------------------------------------- identifiers
\* the calls that hand out identifiers: before the first session a second match is
\* created, terminated and replaced; then sessions come and go on the first match, which
\* starts with the last player it waits for
NextIds ==
    \/ spectate_match(TheMatch)
    \/ join_match(TheMatch)
    \/ \E session \in Tokens : leave_match(TheMatch, session)
    \/ \E session \in Tokens : SubmitNow(session)
    \/ DriverWake
    \/ DriverStep
    \/ Pristine /\ CreateCheck(1)
    \/ CreateInsert(1)
    \/ Pristine /\ terminate_match(TheMatch + 1)

SpecIds == InitDet /\ [][NextIds]_vars

\* the identifiers in use
TokensInUse == (DOMAIN sessions) \cup spectators
PlayersInUse == DOMAIN players
MatchesInUse == registry.matches \cup {creator[k].id : k \in {j \in Creators : creator[j].pc = "spawned"}}
ActionsInUse ==
    UNION {{host.pending_actions[t][i].action_id : i \in DOMAIN host.pending_actions[t]} :
              t \in DOMAIN host.pending_actions}
SequencesInUse == {events.buffer[i].sequence : i \in DOMAIN events.buffer} \ {-1}

\* C21: every identifier in use lies below its counter, an identifier that comes into
\* use is at or above the counter as it was, and no counter ever goes down, so an
\* identifier is never handed out twice; matches count from 1, players from 0, actions
\* from 1; accepted actions carry increasing ids; no token is both a player's and a
\* spectator's
C21_IdsNeverReused ==
    /\ [](/\ \A s \in TokensInUse : 1 <= s /\ s < next_session_id
          /\ \A p \in PlayersInUse : 0 <= p /\ p < host.next_player_id
          /\ \A m \in MatchesInUse : 1 <= m /\ m < registry.next_match_id
          /\ \A a \in ActionsInUse : 1 <= a /\ a < next_action_id
          /\ \A q \in SequencesInUse : 0 <= q /\ q < events.next_sequence
          /\ (DOMAIN sessions) \cap spectators = {}
          /\ \A s \in DOMAIN sessions : players[sessions[s]] = s
          /\ \A i \in DOMAIN submitted : submitted[i].action_id = i)
    /\ [][/\ next_session_id' >= next_session_id
          /\ host'.next_player_id >= host.next_player_id
          /\ registry'.next_match_id >= registry.next_match_id
          /\ next_action_id' >= next_action_id
          /\ events'.next_sequence >= events.next_sequence
          /\ \A s \in TokensInUse' \ TokensInUse : s >= next_session_id
          /\ \A p \in PlayersInUse' \ PlayersInUse : p >= host.next_player_id
          /\ \A m \in MatchesInUse' \ MatchesInUse : m >= registry.next_match_id
          /\ \A a \in ActionsInUse' \ ActionsInUse : a >= next_action_id
          /\ \A q \in SequencesInUse' \ SequencesInUse : q >= events.next_sequence]_vars

\* the first player has left and a later player holds a higher token and player id, an
\* action was accepted, and a match was created after the second match was terminated
C21_Witness ==
    /\ 1 \notin TokensInUse
    /\ 0 \notin PlayersInUse
    /\ sessions # EmptyMap
    /\ next_action_id > 1
    /\ events.next_sequence > 0
    /\ registry.matches = {TheMatch, 3}

\* ------------------------------------------- tower-defense matches
\* configurations on a small grid at 2 ticks per second: spawn in one corner, goal in
\* the opposite one; durations are in milliseconds
TdConfig_small(cost, max_leaks, waves_total, build_time) ==
    [width |-> GridWidth, height |-> GridHeight,
     spawn |-> << 0, 0 >>, goal |-> << GridWidth - 1, GridHeight - 1 >>,
     tick_hz |-> 2, waves_total |-> waves_total,
     inter_wave_pause |-> 500, spawn_interval |-> 500, max_leaks |-> max_leaks,
     build_time |-> build_time,
     basic_spec |-> [cost |-> cost, hp |-> 2, range |-> 1, damage |-> 11, fire_period |-> 1000],
     player_count |-> 1]

\* one wave of eight mobs, lost at the fifth leak; the starting gold pays for one tower
\* and its upgrade, or for one tower and no second one
TdConfigs == {TdConfig_small(26, 4, 1, 500)}

\* the actions a player submits, each with the number of ticks it is scheduled ahead:
\* towers on the two cells between spawn and goal, on the goal and outside the grid for
\* the next tick, and the upgrade of the first tower for when it can have been built
TdSubmissions ==
    {<< PlaceTower(1, 0), 0 >>, << PlaceTower(1, 1), 0 >>,
     << PlaceTower(GridWidth - 1, GridHeight - 1), 0 >>, << PlaceTower(GridWidth, 0), 0 >>,
     << UpgradeTower([idx |-> 1, version |-> 1]), 3 >>}

InitTd ==
    /\ \E config \in TdConfigs : host = [Host_new(Target) EXCEPT !.game = TdGame_new(config)]
    /\ calc = NoCalc
    /\ InitRest(EventCapacity)
    /\ required_players = 1

\* a player submits one of subs during the first ticks of the match
TdSubmit(subs) ==
    \E session \in Tokens, sub \in subs :
       /\ host.current_tick < TdSubmitUntil
       /\ submit_action(session, sub[1], host.current_tick + sub[2])

NextTd ==
    \/ join_player
    \/ TdSubmit(TdSubmissions)
    \/ DriverFire

SpecTd == InitTd /\ [][NextTd]_vars

\* placements only: on a free cell, on that cell again while the build is pending and
\* when the tower stands, on its neighbour, and outside the grid
PlaceSubmissions ==
    {<< PlaceTower(1, 0), 0 >>, << PlaceTower(1, 0), 2 >>, << PlaceTower(1, 1), 0 >>,
     << PlaceTower(GridWidth, 0), 0 >>}

NextPlace ==
    \/ join_player
    \/ TdSubmit(PlaceSubmissions)
    \/ DriverFire

SpecPlace == InitTd /\ [][NextPlace]_vars

\* ------------------------------------------- C22: gold conservation
RECURSIVE SeqSum(_)
SeqSum(seq) == IF seq = << >> THEN 0 ELSE Head(seq) + SeqSum(Tail(seq))

\* gold the events of one step stand for: awards for finished waves and kills, and
\* the price of the builds and upgrades that were accepted; wave_before and wave_after
\* are current_wave when the actions ran and when the dead were removed
GoldAwarded(config, ev, wave_after) ==
    SeqSum([i \in DOMAIN ev |->
               IF ev[i].type = "WaveEnded"
               THEN TdConfig_gold_per_wave(config, ev[i].wave, config.player_count)
               ELSE IF ev[i].type = "MobKilled" THEN TdConfig_gold_per_kill(config, wave_after)
               ELSE 0])

GoldSpent(config, ev, wave_before) ==
    SeqSum([i \in DOMAIN ev |->
               IF ev[i].type = "BuildQueued" THEN TdConfig_build_cost(config, wave_before)
               ELSE IF ev[i].type = "TowerUpgraded"
                    THEN TdConfig_upgrade_cost(config, ev[i].new_level - 1)
               ELSE 0])

\* the state the k-th action of a tick is applied to
BeforeAction(g, tick, actions, k) ==
    ApplyActions([g EXCEPT !.tick = tick], tick, SubSeq(actions, 1, k - 1), << >>).st

\* the price the k-th action asks for in that state: -1 when it names no tower
PriceOf(st, a) ==
    IF a.payload.type = "PlaceTower" THEN TdConfig_build_cost(st.config, st.current_wave)
    ELSE IF SlotMap_contains(st.towers, a.payload.tower_id)
         THEN TdConfig_upgrade_cost(st.config, SlotMap_get(st.towers, a.payload.tower_id).upgrade_level)
    ELSE -1

\* a step of the match: the driver advanced the game by one tick
Stepped1 == host'.current_tick = host.current_tick + 1

\* C22: gold is never negative and starts at gold_start; over every step gold changes
\* by exactly the awards for the waves finished and the mobs killed in the step minus
\* the price of the builds and upgrades accepted in it; an action whose price exceeds
\* the gold at hand leaves the state as it was
C22_GoldConserved ==
    /\ [](/\ host.game.gold >= 0
          /\ host.current_tick = 0 =>
                host.game.gold = TdConfig_gold_start(host.game.config,
                                                     host.game.config.player_count))
    /\ [][Stepped1 =>
            LET g == host.game
                tick == host'.current_tick
                actions == stepLog'[tick]
                ev == TdGame_step(g, tick, actions).events
            IN /\ host'.game.gold = g.gold + GoldAwarded(g.config, ev, host'.game.current_wave)
                                           - GoldSpent(g.config, ev, g.current_wave)
               /\ \A k \in DOMAIN actions :
                     LET pre == BeforeAction(g, tick, actions, k)
                         post == BeforeAction(g, tick, actions, k + 1)
                     IN /\ post.gold >= 0
                        /\ pre.gold < PriceOf(pre, actions[k]) => post = pre
                        /\ post.gold < pre.gold =>
                              post.gold = pre.gold - PriceOf(pre, actions[k])]_vars

\* a build was refused for lack of gold after one was paid for, a kill was rewarded and
\* the wave award was paid
C22_Witness ==
    /\ Len(submitted) = 2
    /\ submitted[1].payload = PlaceTower(1, 0)
    /\ submitted[2].payload = PlaceTower(1, 1)
    /\ host.game.build_queue = << >>
    /\ Len(host.game.towers.slots) = 1
    /\ host.game.phase.phase = "Pause"
    /\ host.game.current_wave = 1
    /\ host.game.gold > 24 + 28

\* ------------------------------------------- C23: leaks and the outcome
\* C23: the leak counter never decreases; the match is Finished(Lose) exactly when
\* leaks > max_leaks; it is Finished(Win) only when the last wave is over (current_wave =
\* waves_total, phase Pause, no mobs) and the leaks are within max_leaks; a finished
\* match is not stepped again and keeps its outcome
C23_LeaksAndOutcome ==
    /\ [](LET g == host.game
          IN /\ status = Finished("Lose") <=> g.leaks > g.config.max_leaks
             /\ status = Finished("Win") =>
                   /\ g.current_wave = g.config.waves_total
                   /\ g.phase.phase = "Pause"
                   /\ SlotMap_is_empty(g.mobs)
                   /\ g.leaks <= g.config.max_leaks
             /\ status.kind = "Finished" => status.outcome = TdGame_is_terminal(g))
    /\ [][/\ host'.game.leaks >= host.game.leaks
          /\ status.kind = "Finished" => host' = host /\ status' = status]_vars

\* a match lost at the first leak beyond max_leaks, the wave still running, although a
\* tower had been built
C23_Witness ==
    /\ status = Finished("Lose")
    /\ host.game.leaks = host.game.config.max_leaks + 1
    /\ host.game.phase.phase = "InWave"
    /\ Len(host.game.towers.slots) > 0
    /\ driver = "exited"

\* ------------------------------------------- C24: PlaceTower
\* the grounds on which a PlaceTower on (x, y) is refused in state st
PlaceRefused(st, x, y) ==
    \/ ~(x < st.config.width /\ y < st.config.height)
    \/ st.grid.cells[y * st.config.width + x].cell \in {"Tower", "Building"}
    \/ st.gold < TdConfig_build_cost(st.config, st.current_wave)

C25_FieldCurrent ==
    [][Stepped1 =>
          LET before == BeforeMove(host.game, host'.current_tick,
                                   stepLog'[host'.current_tick]).st
          IN ~SlotMap_is_empty(before.mobs) =>
                before.dist = compute_distance_field(before.grid, before.config.goal)]_vars

\* ------------------------------------------- C26: compute_distance_field on its own
\* every set of blocked cells on the grid, pending builds and towers alike, with the goal
\* in the far corner or next to the near one
FieldGrids ==
    {[Grid_new(GridWidth, GridHeight) EXCEPT
         !.cells = [i \in DOMAIN @ |->
                       IF i \in blocked
                       THEN (IF i % 2 = 0 THEN Building ELSE Tower([idx |-> 1, version |-> 1]))
                       ELSE Empty]] :
        blocked \in SUBSET (0..(GridWidth * GridHeight - 1))}

FieldGoals == {<< GridWidth - 1, GridHeight - 1 >>, << 1, 0 >>}

InitField ==
    /\ host = Host_new(Target)
    /\ \E grid \in FieldGrids, goal \in FieldGoals :
          calc = [fn |-> "compute_distance_field", grid |-> grid, goal |-> goal,
                  done |-> FALSE, dist |-> << >>]
    /\ InitRest(EventCapacity)
    /\ required_players = 1

\* the call: the dist array is filled for the grid and the goal
ComputeField ==
    /\ calc.fn = "compute_distance_field"
    /\ ~calc.done
    /\ calc' = [calc EXCEPT !.done = TRUE, !.dist = compute_distance_field(calc.grid, calc.goal)]
    /\ UNCHANGED << mgrVars, shutdown, driver, callVars, histVars, srvVars, locks >>

NextField == ComputeField

SpecField == InitField /\ [][NextField]_vars

\* one step of a legal route between the cells a and b: eight-connected, both cells
\* unblocked, a diagonal step only between two unblocked flanking cells; its cost, or 0
\* when there is no such step
StepCost(grid, a, b) ==
    LET ax == a % grid.width
        ay == a \div grid.width
        bx == b % grid.width
        by == b \div grid.width
        dx == bx - ax
        dy == by - ay
        free(x, y) == grid.cells[y * grid.width + x] = Empty
    IN IF a = b \/ dx \notin {-1, 0, 1} \/ dy \notin {-1, 0, 1} THEN 0
       ELSE IF ~free(ax, ay) \/ ~free(bx, by) THEN 0
       ELSE IF dx = 0 \/ dy = 0 THEN 10
       ELSE IF free(bx, ay) /\ free(ax, by) THEN 14
       ELSE 0

\* the least costs of routes of at most one more step than those of prev, for the
\* cells c and after; prev and the result are sequences, cell c at position c + 1
RECURSIVE Relaxed(_, _, _)
Relaxed(grid, prev, c) ==
    IF c >= Len(prev) THEN << >>
    ELSE LET via == {prev[b + 1] + StepCost(grid, c, b) :
                        b \in {e \in DOMAIN grid.cells :
                                  StepCost(grid, c, e) > 0 /\ prev[e + 1] < DistMax}}
             least == IF via = {} THEN DistMax ELSE CHOOSE v \in via : \A w \in via : v <= w
         IN << IF least < prev[c + 1] THEN least ELSE prev[c + 1] >> \o Relaxed(grid, prev, c + 1)

\* least cost of a legal route of at most n steps from every cell to the goal cell
RECURSIVE LeastCost(_, _, _)
LeastCost(grid, goal_idx, n) ==
    IF n = 0
    THEN [c \in 1..(grid.width * grid.height) |->
             IF c - 1 = goal_idx /\ grid.cells[goal_idx] = Empty THEN 0 ELSE DistMax]
    ELSE Relaxed(grid, LeastCost(grid, goal_idx, n - 1), 0)

\* C26: the field holds for every cell the least cost of a legal route to the goal
\* (cardinal steps 10, diagonal steps 14, a diagonal only between two unblocked flanking
\* cells), and MAX for a cell without a route and for every blocked cell; with a blocked
\* goal the whole field is MAX
C26_FieldIsLeastCost ==
    calc.fn = "compute_distance_field" /\ calc.done =>
       LET grid == calc.grid
           goal_idx == calc.goal[2] * grid.width + calc.goal[1]
           cells == DOMAIN grid.cells
           least == LeastCost(grid, goal_idx, GridWidth * GridHeight)
       IN /\ \A c \in cells : calc.dist[c] = least[c + 1]
          /\ \A c \in cells : grid.cells[c] # Empty => calc.dist[c] = DistMax
          /\ grid.cells[goal_idx] # Empty => \A c \in cells : calc.dist[c] = DistMax

\* a field around blocked cells: the goal is open, a blocked cell holds MAX and a cell is
\* reached by a detour of cost 40, more than any route on the empty grid at base size
C26_Witness ==
    /\ calc.fn = "compute_distance_field"
    /\ calc.done
    /\ calc.goal = << GridWidth - 1, GridHeight - 1 >>
    /\ calc.dist[calc.goal[2] * calc.grid.width + calc.goal[1]] = 0
    /\ \E c \in DOMAIN calc.grid.cells : calc.grid.cells[c] # Empty /\ calc.dist[c] = DistMax
    /\ \E c \in DOMAIN calc.grid.cells : calc.dist[c] = 40

\* ------------------------------------------- C27: no corner cutting
\* towers in the way of the mobs: on the two cells between spawn and goal and on the goal
MazeSubmissions ==
    {<< PlaceTower(1, 0), 0 >>, << PlaceTower(1, 1), 0 >>,
     << PlaceTower(GridWidth - 1, GridHeight - 1), 0 >>}

NextMaze ==
    \/ join_player
    \/ TdSubmit(MazeSubmissions)
    \/ DriverFire

SpecMaze == InitTd /\ [][NextMaze]_vars

\* the move phase of a step mob by mob: the cell the mob is on, the cell move_mob puts
\* it on, and whether it moved; the grid is the same for all of them, the towers that
\* fall in the step are taken off it after the last move
MobMoves(before, tick) ==
    LET ids == SlotMap_keys(before.mobs)
    IN {LET mob == SlotMap_get(before.mobs, ids[i])
            r == move_mob(before, ids[i], tick >= mob.next_move_tick)
        IN [from |-> << mob.x, mob.y >>,
            to |-> << SlotMap_get(r.st.mobs, ids[i]).x, SlotMap_get(r.st.mobs, ids[i]).y >>,
            moved |-> r.result = Moved] : i \in DOMAIN ids}

\* C27: every move of a mob, by the gradient or by the search towards a tower, goes to
\* one of the eight neighbours, never into a blocked cell, and goes diagonally only
\* when both flanking cardinal cells are unblocked at the time of the move
C27_NoCornerCutting ==
    [][Stepped1 =>
          LET tick == host'.current_tick
              before == BeforeMove(host.game, tick, stepLog'[tick]).st
              free(x, y) == before.grid.cells[y * before.grid.width + x] = Empty
          IN \A m \in MobMoves(before, tick) :
                LET dx == m.to[1] - m.from[1]
                    dy == m.to[2] - m.from[2]
                IN IF ~m.moved THEN m.to = m.from
                   ELSE /\ dx \in {-1, 0, 1} /\ dy \in {-1, 0, 1} /\ << dx, dy >> # << 0, 0 >>
                        /\ m.to[1] \in 0..(before.grid.width - 1)
                        /\ m.to[2] \in 0..(before.grid.height - 1)
                        /\ free(m.to[1], m.to[2])
                        /\ (dx # 0 /\ dy # 0) =>
                              /\ free(m.from[1] + dx, m.from[2])
                              /\ free(m.from[1], m.from[2] + dy)]_vars

\* the goal is walled in by a tower, the field is MAX everywhere, and a mob has walked
\* towards the tower by the search
C27_Witness ==
    /\ Grid_get(host.game.grid, GridWidth - 1, GridHeight - 1).cell = "Tower"
    /\ \A c \in DOMAIN host.game.dist : host.game.dist[c] = DistMax
    /\ \E id \in {SlotMap_keys(host.game.mobs)[i] : i \in DOMAIN SlotMap_keys(host.game.mobs)} :
          << SlotMap_get(host.game.mobs, id).x, SlotMap_get(host.game.mobs, id).y >>
             # host.game.config.spawn

\* ------------------------------------------- C28: the idle solo match
\* a match lost in its first wave, one that outlasts the 8 leaks of its first wave, and
\* one lost in its second wave as with the default max_leaks of 10 against waves of 8
\* and 9 mobs
IdleConfigs == {TdConfig_small(26, 4, 1, 500), TdConfig_small(26, 8, 2, 500), TdConfig_small(26, 10, 2, 500)}

InitIdle ==
    /\ \E config \in IdleConfigs : host = [Host_new(Target) EXCEPT !.game = TdGame_new(config)]
    /\ calc = NoCalc
    /\ InitRest(EventCapacity)
    /\ required_players = 1

\* one player joins and submits nothing; spectators come and the driver ticks
NextIdle ==
    \/ join_player
    \/ spectate
    \/ DriverFire

\* the interval of the tick loop fires again and again while the loop is alive
SpecIdle == InitIdle /\ [][NextIdle]_vars /\ WF_vars(DriverFire)

\* the keys a mob can have in these matches
MobKeys == {[idx |-> i, version |-> v] : i \in 1..(GridWidth + GridHeight), v \in 1..TdMaxTick}

OnGrid(k) == SlotMap_contains(host.game.mobs, k)

\* the mobs spawned so far: the waves before the current one and what the current one
\* has spawned
RECURSIVE SpawnedInWaves(_, _)
SpawnedInWaves(config, w) ==
    IF w = 0 THEN 0
    ELSE TdConfig_wave_size(config, w, config.player_count) + SpawnedInWaves(config, w - 1)

SpawnedSoFar(g) ==
    IF g.current_wave = 0 THEN 0
    ELSE SpawnedInWaves(g.config, g.current_wave - 1)
         + (IF g.phase.phase = "InWave" THEN g.phase.spawned
            ELSE TdConfig_wave_size(g.config, g.current_wave, g.config.player_count))

\* C28 as stated: in the idle solo match every spawned mob reaches the goal and is
\* counted as a leak, and the match ends as Finished(Lose) with leaks > max_leaks
C28_EveryMobLeaks ==
    /\ \A k \in MobKeys : OnGrid(k) ~> ~OnGrid(k)
    /\ status = Running ~> (status = Finished("Lose")
                            /\ host.game.leaks > host.game.config.max_leaks)

\* C28, amended: no mob leaves the grid but by a counted leak, every mob on the grid
\* leaks or the match is finished first, a pause between waves ends with the next wave
\* or the end of the match, a running match ends as Finished(Lose) with leaks >
\* max_leaks and the driver gone, and a finished match is not stepped
C28_IdleLoses ==
    /\ [](/\ SlotMap_is_empty(host.game.towers)
          /\ host.game.leaks + Len(SlotMap_keys(host.game.mobs)) = SpawnedSoFar(host.game)
          /\ \A i \in DOMAIN SlotMap_keys(host.game.mobs) : SlotMap_keys(host.game.mobs)[i] \in MobKeys)
    /\ \A k \in MobKeys : OnGrid(k) ~> (~OnGrid(k) \/ status.kind = "Finished")
    /\ (status = Running /\ host.game.phase.phase = "Pause")
          ~> (host.game.phase.phase = "InWave" \/ status.kind = "Finished")
    /\ status = Running ~> (/\ status = Finished("Lose")
                            /\ host.game.leaks > host.game.config.max_leaks
                            /\ driver = "exited")
    /\ [][status.kind = "Finished" => host' = host /\ status' = status]_vars

\* the match lost in its second wave: all of the first wave has leaked, the second wave
\* has begun, and mobs are left on the grid that will not move again
C28_Witness ==
    /\ status = Finished("Lose")
    /\ host.game.current_wave = 2
    /\ host.game.leaks = host.game.config.max_leaks + 1
    /\ ~SlotMap_is_empty(host.game.mobs)
    /\ submitted = << >>
    /\ driver = "exited"

\* ------------------------------------------- C29: Q32.32 durations (Micros)
\* a machine word is a sequence of bytes, the least significant first
U64 == 8
U128 == 16

MICROS_PER_SEC == 1000000
FRAC_BITS == 32

\* the largest number of whole seconds a Micros holds
SecsRange == 4294

RECURSIVE Zeros(_)
Zeros(n) == IF n = 0 THEN << >> ELSE << 0 >> \o Zeros(n - 1)

\* a u32 below 2^31 as a word of w bytes
RECURSIVE ToWord(_, _)
ToWord(n, w) == IF w = 0 THEN << >> ELSE << n % 256 >> \o ToWord(n \div 256, w - 1)

\* `as`: a word widened with zero bytes or cut to its low w bytes
Cast(x, w) == IF Len(x) >= w THEN SubSeq(x, 1, w) ELSE x \o Zeros(w - Len(x))

\* x + y + carry of two words of one width, the carry out of the width dropped
RECURSIVE AddWords(_, _, _)
AddWords(x, y, carry) ==
    IF x = << >> THEN << >>
    ELSE LET sum == Head(x) + Head(y) + carry
         IN << sum % 256 >> \o AddWords(Tail(x), Tail(y), sum \div 256)

\* x - y - borrow of two words of one width, for y <= x
RECURSIVE SubWords(_, _, _)
SubWords(x, y, borrow) ==
    IF x = << >> THEN << >>
    ELSE LET diff == Head(x) - Head(y) - borrow
         IN << (diff + 256) % 256 >> \o SubWords(Tail(x), Tail(y), IF diff < 0 THEN 1 ELSE 0)

\* x <= y for two words of one width
RECURSIVE WordLeq(_, _)
WordLeq(x, y) ==
    IF x = << >> THEN TRUE
    ELSE LET n == Len(x)
         IN IF x[n] # y[n] THEN x[n] < y[n]
            ELSE WordLeq(SubSeq(x, 1, n - 1), SubSeq(y, 1, n - 1))

\* x * d + carry for a byte d, in the width of x
RECURSIVE MulByte(_, _, _)
MulByte(x, d, carry) ==
    IF x = << >> THEN << >>
    ELSE LET prod == Head(x) * d + carry
         IN << prod % 256 >> \o MulByte(Tail(x), d, prod \div 256)

\* x << (8 * bytes) in the width of x: the bytes shifted out at the top are lost
ShlBytes(x, bytes) == Cast(Zeros(bytes) \o x, Len(x))

\* x * y in the width of x (wrapping), y taken byte by byte
RECURSIVE MulWords(_, _)
MulWords(x, y) ==
    IF y = << >> THEN Zeros(Len(x))
    ELSE AddWords(MulByte(x, Head(y), 0), ShlBytes(MulWords(x, Tail(y)), 1), 0)

\* the largest byte q in lo..hi with d * q <= r
RECURSIVE QuotByte(_, _, _, _)
QuotByte(r, d, lo, hi) ==
    IF lo = hi THEN lo
    ELSE LET mid == (lo + hi + 1) \div 2
         IN IF WordLeq(MulByte(d, mid, 0), r) THEN QuotByte(r, d, mid, hi)
            ELSE QuotByte(r, d, lo, mid - 1)

\* long division n / d for d # 0, from the top byte of n down: the quotient bytes, the
\* least significant first, in the width of n.  rem and d are one byte wider than n.
RECURSIVE DivStep(_, _, _)
DivStep(n, d, rem) ==
    IF n = << >> THEN << >>
    ELSE LET r == << n[Len(n)] >> \o SubSeq(rem, 1, Len(rem) - 1)
             q == QuotByte(r, d, 0, 255)
         IN DivStep(SubSeq(n, 1, Len(n) - 1), d, SubWords(r, MulByte(d, q, 0), 0)) \o << q >>

DivWords(n, d) == DivStep(n, Cast(d, Len(n) + 1), Zeros(Len(n) + 1))

\* Micros::from_secs: (secs as u64 * MICROS_PER_SEC) << FRAC_BITS
Micros_from_secs(secs) ==
    ShlBytes(MulWords(Cast(ToWord(secs, 4), U64), ToWord(MICROS_PER_SEC, U64)), FRAC_BITS \div 8)

\* variant: the product is formed in 64 bits
Micros_to_ticks_Narrow(raw, tick_hz) ==
    LET numer == MulWords(raw, ToWord(tick_hz, 4))
        denom == ShlBytes(ToWord(MICROS_PER_SEC, U64), FRAC_BITS \div 8)
    IN DivWords(numer, denom)

\* Micros::to_ticks: (self.0 as u128 * tick_hz as u128) / (MICROS_PER_SEC << 32) as u64;
\* the product has the width of its left operand, and of tick_hz the four bytes of the
\* u32 are taken: the bytes it is widened with are zero
Micros_to_ticks(raw, tick_hz) ==
    LET numer == MulWords(Cast(raw, U128), ToWord(tick_hz, 4))
        denom == ShlBytes(ToWord(MICROS_PER_SEC, U64), FRAC_BITS \div 8)
    IN Cast(DivWords(numer, Cast(denom, U128)), U64)

SecsInputs == {0, 1, 2, 30, MaxSecs - 1, MaxSecs, SecsRange, SecsRange + 1}
RateInputs == {0, 1, 2, 20, 60, MaxRate - 1, MaxRate}

InitMicros ==
    /\ host = Host_new(Target)
    /\ \E secs \in SecsInputs, tick_hz \in RateInputs :
          calc = [fn |-> "to_ticks", secs |-> secs, tick_hz |-> tick_hz, stage |-> "args",
                  raw |-> << >>, ticks |-> << >>]
    /\ InitRest(EventCapacity)
    /\ required_players = 1

\* let m = Micros::from_secs(secs)
FromSecs ==
    /\ calc.fn = "to_ticks"
    /\ calc.stage = "args"
    /\ calc' = [calc EXCEPT !.stage = "micros", !.raw = Micros_from_secs(calc.secs)]
    /\ UNCHANGED << mgrVars, shutdown, driver, callVars, histVars, srvVars, locks >>

\* m.to_ticks(tick_hz)
ToTicks ==
    /\ calc.fn = "to_ticks"
    /\ calc.stage = "micros"
    /\ calc' = [calc EXCEPT !.stage = "ticks", !.ticks = Micros_to_ticks(calc.raw, calc.tick_hz)]
    /\ UNCHANGED << mgrVars, shutdown, driver, callVars, histVars, srvVars, locks >>

NextMicros ==
    \/ FromSecs
    \/ ToTicks

SpecMicros == InitMicros /\ [][NextMicros]_vars

\* a * b of two numbers below 2^31, exact, as a word of 24 bytes
Product(a, b) == MulWords(Cast(ToWord(a, 4), U64 + U128), ToWord(b, 4))

\* secs * 10^6 * 2^32, exact, as a word of 24 bytes
ExactMicros(secs) == ShlBytes(Product(secs, MICROS_PER_SEC), FRAC_BITS \div 8)

\* C29: for secs <= 4000 and tick_hz <= 10^6 the raw word of from_secs(secs) is
\* secs * 10^6 * 2^32 with no bit lost, and to_ticks gives the floor of
\* raw * tick_hz / (10^6 << 32), which is secs * tick_hz
C29_RoundTrip ==
    [][(calc'.fn = "to_ticks" /\ calc'.secs <= MaxSecs /\ calc'.tick_hz <= MaxRate) =>
          /\ calc'.stage = "micros" =>
                /\ Len(calc'.raw) = U64
                /\ Cast(calc'.raw, U64 + U128) = ExactMicros(calc'.secs)
          /\ calc'.stage = "ticks" =>
                LET wide == U64 + U128
                    ticks == Cast(calc'.ticks, wide)
                    numer == MulWords(Cast(calc'.raw, wide), ToWord(calc'.tick_hz, 4))
                    denom == ExactMicros(1)
                    below == MulWords(ticks, Cast(denom, U64))
                IN /\ Len(calc'.ticks) = U64
                   /\ ticks = Product(calc'.secs, calc'.tick_hz)
                   /\ WordLeq(below, numer)
                   /\ ~WordLeq(AddWords(below, denom, 0), numer)]_vars

\* 4000 s at 10^6 Hz: the raw word uses its top byte and the 4 * 10^9 ticks do not fit
\* in 31 bits
C29_Witness ==
    /\ calc.fn = "to_ticks"
    /\ calc.stage = "ticks"
    /\ calc.secs = MaxSecs
    /\ calc.tick_hz = MaxRate
    /\ calc.raw[U64] # 0
    /\ calc.ticks[4] >= 128
    /\ calc.ticks = Cast(Product(MaxSecs, MaxRate), U64)

\* ------------------------------------------- C30: wake-ups of observe_next
\* this step published: a decision-tick observation was cached, or the match became
\* Finished or Terminated
Published ==
    \/ last_decision_tick' # last_decision_tick
    \/ status' # status /\ status'.kind \in {"Finished", "Terminated"}

\* the call of c has decided to wait and has not yet been woken or timed out
DecidedToWait(c) == pc[c] \in {"prewait", "waiting"}

\* C30: a publication at any moment after observe_next decided to wait, the window
\* between the release of the lock and the suspension on the Notify included, wakes
\* that call: it is among the notified waiters after the step
C30_NoLostWakeup ==
    [][\A c \in Callers : (DecidedToWait(c) /\ Published) => c \in notified']_vars

\* ------------------------------------------- C31: who gets AlreadyWaiting
\* the session has an observe_next call in progress
InProgress(session) == \E c \in Callers : pc[c] # "idle" /\ call[c].session = session

\* C31: AlreadyWaiting goes only to a call that has not itself been suspended: a call
\* that passed the is_waiting test and waited never returns AlreadyWaiting after it
\* wakes; and is_waiting of a session is false whenever no call of it is in progress
C31_OnlyTheLatecomerFails ==
    /\ [](\A session \in DOMAIN session_observe_state :
             session_observe_state[session].is_waiting => InProgress(session))
    /\ [][\A c \in Callers :
            (pc[c] = "check" /\ pc'[c] = "idle" /\ ret'[c].kind = "AlreadyWaiting")
               => ~call[c].waited]_vars

\* ------------------------------------------------ C33: the driver's call
\* the driver's call of step_one_tick returns in this step
DriverCall == driver = "stepping" /\ driver' # "stepping"

\* ring entries written by this step
WrittenNow == {e \in {events'.buffer[i] : i \in DOMAIN events'.buffer} \ {None} :
                  e.sequence >= events.next_sequence}

\* C33: a call of step_one_tick by the driver changes nothing unless the status is
\* Running: host (tick, schedule, game), ring, observation cache, last_decision_tick and
\* status stay as they are; the tick is 0 while WaitingForPlayers and no step changes it
\* once the match is Finished or Terminated; a call while Running raises the tick by
\* exactly 1, leaves the older ring entries or evicts them, and stores every event of the
\* step in the ring under the new tick
C33_StepsOnlyWhenRunning ==
    /\ [](status.kind = "WaitingForPlayers" => host.current_tick = 0)
    /\ [][status.kind \in {"Finished", "Terminated"} =>
             host'.current_tick = host.current_tick]_vars
    /\ [][DriverCall /\ status.kind # "Running" =>
             /\ host' = host
             /\ events' = events
             /\ cached_observations' = cached_observations
             /\ last_decision_tick' = last_decision_tick
             /\ status' = status]_vars
    /\ [][DriverCall /\ status.kind = "Running" =>
             /\ host'.current_tick = host.current_tick + 1
             /\ events'.next_sequence
                   = events.next_sequence + Len(Host_step_one_tick(host).events)
             /\ events'.next_sequence > events.next_sequence
             /\ \A e \in WrittenNow : e.tick = host'.current_tick
             /\ \A i \in DOMAIN events'.buffer :
                   events'.buffer[i] \in WrittenNow \/ events'.buffer[i] = events.buffer[i]]_vars

\* the driver is inside its call of step_one_tick on a match that has stepped, has
\* events in its ring and was terminated meanwhile
C33_Witness ==
    /\ driver = "stepping"
    /\ status.kind = "Terminated"
    /\ host.current_tick > 0
    /\ events.next_sequence > 0
    /\ last_decision_tick > 0

\* ------------------------------------------------ C34: run_for_ticks
\* variant: the loop does not look at the game before it advances
RECURSIVE RunLoop_PastTerminal(_, _, _)
RunLoop_PastTerminal(h, left, all_events) ==
    IF left = 0
    THEN [host |-> h, outcome |-> Game_is_terminal(h.game), final_tick |-> h.current_tick,
          events |-> all_events]
    ELSE LET tick == h.current_tick + 1
             actions == SortByKey(IF tick \in DOMAIN h.pending_actions
                                  THEN h.pending_actions[tick] ELSE << >>)
             next(r) == RunLoop_PastTerminal([h EXCEPT !.current_tick = tick,
                                                       !.pending_actions = MapRemove(@, tick),
                                                       !.game = r.game],
                                             left - 1, all_events \o r.events)
         IN Then(Game_step(h.game, tick, actions), next)

\* the loop of run_for_ticks with left rounds to go; outcome "None" models None
RECURSIVE RunLoop(_, _, _)
RunLoop(h, left, all_events) ==
    IF left = 0
    THEN [host |-> h, outcome |-> Game_is_terminal(h.game), final_tick |-> h.current_tick,
          events |-> all_events]
    ELSE IF Game_is_terminal(h.game) # "None"
    THEN [host |-> h, outcome |-> Game_is_terminal(h.game), final_tick |-> h.current_tick,
          events |-> all_events]
    ELSE LET tick == h.current_tick + 1
             actions == SortByKey(IF tick \in DOMAIN h.pending_actions
                                  THEN h.pending_actions[tick] ELSE << >>)
             next(r) == RunLoop([h EXCEPT !.current_tick = tick,
                                          !.pending_actions = MapRemove(@, tick),
                                          !.game = r.game],
                                left - 1, all_events \o r.events)
         IN Then(Game_step(h.game, tick, actions), next)

Host_run_for_ticks(h, max_ticks) == RunLoop(h, max_ticks, << >>)

\* a caller that calls step_one_tick until it returns None or left calls were made
RECURSIVE StepLoop(_, _, _)
StepLoop(h, left, all_events) ==
    IF left = 0 THEN [host |-> h, events |-> all_events]
    ELSE LET next(r) == IF r.stepped
                        THEN StepLoop(r.host, left - 1, all_events \o r.events)
                        ELSE [host |-> h, events |-> all_events]
         IN Then(Host_step_one_tick(h), next)

\* a host used on its own: actions are submitted to it, it is stepped and run
HostCall(op, max_ticks, result) ==
    [fn |-> "host", op |-> op, from |-> host.current_tick, max |-> max_ticks,
     result |-> result]

InitRun ==
    /\ host = Host_new(Target)
    /\ calc = [fn |-> "host", op |-> "none", from |-> 0, max |-> 0, result |-> << >>]
    /\ InitRest(EventCapacity)
    /\ required_players = 1

HostSubmit(player_id, payload, intended_tick) ==
    /\ calc.fn = "host"
    /\ next_action_id <= MaxActions
    /\ host' = Host_submit(host, [player_id |-> player_id, action_id |-> next_action_id,
                                  intended_tick |-> intended_tick,
                                  payload |-> payload]).host
    /\ next_action_id' = next_action_id + 1
    /\ calc' = HostCall("submit", 0, << >>)
    /\ UNCHANGED << events, sessions, players, spectators, next_session_id,
                    required_players, status, last_decision_tick, cached_observations,
                    session_observe_state >>
    /\ UNCHANGED << shutdown, driver, callVars, histVars, srvVars, locks >>

HostStep ==
    /\ calc.fn = "host"
    /\ Game_is_terminal(host.game) # "None" \/ host.current_tick < MaxTick
    /\ \E r \in {Host_step_one_tick(host)} :
          /\ host' = r.host
          /\ calc' = HostCall("step_one_tick", 1, [stepped |-> r.stepped, events |-> r.events])
    /\ UNCHANGED << events, sessions, players, spectators, next_session_id, next_action_id,
                    required_players, status, last_decision_tick, cached_observations,
                    session_observe_state >>
    /\ UNCHANGED << shutdown, driver, callVars, histVars, srvVars, locks >>

HostRun(max_ticks) ==
    /\ calc.fn = "host"
    /\ host.current_tick + max_ticks <= MaxTick
    /\ \E r \in {Host_run_for_ticks(host, max_ticks)} :
          /\ host' = r.host
          /\ calc' = HostCall("run_for_ticks", max_ticks,
                              [outcome |-> r.outcome, final_tick |-> r.final_tick,
                               events |-> r.events])
    /\ UNCHANGED << events, sessions, players, spectators, next_session_id, next_action_id,
                    required_players, status, last_decision_tick, cached_observations,
                    session_observe_state >>
    /\ UNCHANGED << shutdown, driver, callVars, histVars, srvVars, locks >>

NextRun ==
    \/ \E player_id \in {0, MaxPlayers - 1}, payload \in {1, MaxAmount},
          intended_tick \in {host.current_tick, host.current_tick + 2, MaxTick} :
          HostSubmit(player_id, payload, intended_tick)
    \/ HostStep
    \/ \E max_ticks \in Ticks : HostRun(max_ticks)

SpecRun == InitRun /\ [][NextRun]_vars

\* C34: run_for_ticks(max) leaves the host (tick, schedule, game) as max calls of
\* step_one_tick that stop at the first None do, returns the events of those calls in
\* order, the tick they end at and the terminal outcome of the game they end with; and
\* step_one_tick on a terminal game returns None and leaves the host as it is
C34_RunIsRepeatedStep ==
    /\ [][\A max_ticks \in Ticks : HostRun(max_ticks) =>
             \E ref \in {StepLoop(host, max_ticks, << >>)} :
                /\ host' = ref.host
                /\ calc'.result.events = ref.events
                /\ calc'.result.final_tick = ref.host.current_tick
                /\ calc'.result.outcome = Game_is_terminal(ref.host.game)]_vars
    /\ [][HostStep /\ Game_is_terminal(host.game) # "None" =>
             /\ ~calc'.result.stepped
             /\ host' = host]_vars

\* a run that was given more ticks than the game lasted: it stopped when the game was
\* won at its second tick or later, after an increment, with actions left in the schedule
C34_Witness ==
    /\ calc.fn = "host"
    /\ calc.op = "run_for_ticks"
    /\ calc.result.outcome = "Win"
    /\ calc.result.final_tick >= calc.from + 2
    /\ calc.result.final_tick < calc.from + calc.max
    /\ \E i \in DOMAIN calc.result.events : calc.result.events[i].type = "Incremented"
    /\ host.pending_actions # EmptyMap

\* ------------------------------------------------ C35: leave
\* players whose session is alive
LivePlayers == {sessions[s] : s \in DOMAIN sessions}

\* a token that was issued and is neither a player's nor a spectator's any more
Dead(token) ==
    /\ token < next_session_id
    /\ token \notin (DOMAIN sessions) \cup spectators

\* actions in the schedule whose player has left
Orphaned == {a \in ActionsInUse : \E t \in DOMAIN host.pending_actions :
                \E i \in DOMAIN host.pending_actions[t] :
                   /\ host.pending_actions[t][i].action_id = a
                   /\ host.pending_actions[t][i].player_id \notin LivePlayers}

\* players and spectators that come and go while actions are submitted and the match steps
NextLeave ==
    \/ spectate_match(TheMatch)
    \/ join_match(TheMatch)
    \/ \E session \in Tokens : leave_match(TheMatch, session)
    \/ \E session \in Tokens : SubmitNow(session)
    \/ DriverWake
    \/ DriverStep

SpecLeave == InitDet /\ [][NextLeave]_vars

\* C35: a leave takes away the token's entries (session, observe state, the player's
\* link to it, or the spectator entry) and nothing else: status with its count of joined
\* players, host with the schedule and the player id counter, ring, cache and counters
\* stay; a tick is stepped with every action scheduled for it, whoever has left; a dead
\* token stays dead, and every operation given a dead token answers InvalidSession
C35_LeaveRemovesTheTokenOnly ==
    /\ [][\A session \in Tokens :
             leave_match(TheMatch, session) /\ api'.result = "Ok" =>
                /\ UNCHANGED << host, events, status, required_players, next_session_id,
                                next_action_id, last_decision_tick, cached_observations >>
                /\ Dead(session)'
                /\ DOMAIN sessions' = (DOMAIN sessions) \ {session}
                /\ \A s \in DOMAIN sessions' : sessions'[s] = sessions[s]
                /\ spectators' = spectators \ {session}
                /\ DOMAIN session_observe_state' = (DOMAIN session_observe_state) \ {session}
                /\ \A s \in DOMAIN session_observe_state' :
                      session_observe_state'[s] = session_observe_state[s]
                /\ DOMAIN players' = {p \in DOMAIN players : players[p] # session}
                /\ \A p \in DOMAIN players' : players'[p] = players[p]]_vars
    /\ [][host'.current_tick = host.current_tick + 1 =>
             LET tick == host'.current_tick
                 bucket == IF tick \in DOMAIN host.pending_actions
                           THEN host.pending_actions[tick] ELSE << >>
             IN /\ Len(stepLog'[tick]) = Len(bucket)
                /\ {stepLog'[tick][i] : i \in DOMAIN stepLog'[tick]}
                      = {bucket[i] : i \in DOMAIN bucket}]_vars
    /\ [][\A token \in Tokens : Dead(token) => Dead(token)']_vars
    /\ [](\A token \in Tokens : Dead(token) =>
             /\ MatchHandle_submit_action(Mgr, token, MaxAmount, host.current_tick).result
                   = "InvalidSession"
             /\ ~MatchHandle_observe(Mgr, token).some
             /\ ~MatchHandle_poll_events(Mgr, token, 0).some
             /\ ~MatchHandle_leave_player(Mgr, token).left
             /\ \A after_tick \in Ticks, remaining_zero \in BOOLEAN :
                   ObserveNextLocked(token, after_tick, remaining_zero).outcome
                      = "InvalidSession")

\* the match became Running with one live session of the two players required: a player
\* left after submitting, its action is still in the schedule, and the leave returned Ok
C35_Witness ==
    /\ status = Running
    /\ required_players = MaxPlayers
    /\ Cardinality(DOMAIN sessions) < required_players
    /\ Orphaned # {}
    /\ \E token \in Tokens : Dead(token)

\* ------------------------------------------------ C36: the order of events
\* the entries the ring holds
Held == {events.buffer[i] : i \in DOMAIN events.buffer} \ {None}

\* C36: the events of the match are numbered 0, 1, 2, ... in the order they were
\* emitted: the ring holds one entry for each of its most recent sequence numbers, the
\* k-th event of a step gets the k-th sequence number after those given before and the
\* tick of that step, ticks do not decrease as sequence numbers grow, in the ring and in
\* what a reader received, and no event carries a tick above the current one
C36_EventsOrdered ==
    /\ [](/\ host.current_tick = 0 => events.next_sequence = 0
          /\ {e.sequence : e \in Held}
                = OldestAvailable(events)..(events.next_sequence - 1)
          /\ Cardinality(Held) = events.next_sequence - OldestAvailable(events)
          /\ \A e \in Held : 1 <= e.tick /\ e.tick <= host.current_tick
          /\ \A a, b \in Held : a.sequence < b.sequence => a.tick <= b.tick
          /\ \A i, j \in DOMAIN reader.log :
                i < j => /\ reader.log[i].sequence < reader.log[j].sequence
                         /\ reader.log[i].tick <= reader.log[j].tick)
    /\ [][host'.current_tick = host.current_tick + 1 =>
             \E evs \in {Host_step_one_tick(host).events} :
                /\ events'.next_sequence = events.next_sequence + Len(evs)
                /\ \A k \in DOMAIN evs :
                      LET seq == events.next_sequence + k - 1
                      IN seq >= OldestAvailable(events') =>
                            events'.buffer[seq % events.capacity]
                               = [sequence |-> seq, tick |-> host'.current_tick,
                                  event |-> evs[k]]]_vars
    /\ [][host'.current_tick = host.current_tick => events' = events]_vars

\* a ring of two or more slots that has wrapped around and holds two events of the
\* current tick, an increment and the tick's end, and a reader that has events of two ticks
C36_Witness ==
    /\ events.capacity >= 2
    /\ events.next_sequence > events.capacity
    /\ \E a, b \in Held :
          /\ a.sequence + 1 = b.sequence
          /\ a.tick = host.current_tick /\ b.tick = host.current_tick
          /\ a.event.type = "Incremented" /\ b.event.type = "TickAdvanced"
    /\ \E i, j \in DOMAIN reader.log : reader.log[i].tick < reader.log[j].tick

\* ------------------------------------------- C37: one entity per cell
\* the starting gold pays for three towers, which take two ticks to build
GridConfigs == {TdConfig_small(12, 4, 1, 1000)}

InitGrid ==
    /\ \E config \in GridConfigs : host = [Host_new(Target) EXCEPT !.game = TdGame_new(config)]
    /\ calc = NoCalc
    /\ InitRest(EventCapacity)
    /\ required_players = 1

\* towers on the goal, where the mobs bring them down, next to it and on the cell
\* between, asked for at once, again while the build is pending, and again when the
\* tower on the goal has fallen
GridSubmissions ==
    {<< PlaceTower(GridWidth - 1, GridHeight - 1), 0 >>,
     << PlaceTower(GridWidth - 1, GridHeight - 1), 1 >>,
     << PlaceTower(GridWidth - 1, GridHeight - 1), 9 >>,
     << PlaceTower(1, 0), 0 >>, << PlaceTower(1, 1), 2 >>}

NextGrid ==
    \/ join_player
    \/ TdSubmit(GridSubmissions)
    \/ DriverFire

SpecGrid == InitGrid /\ [][NextGrid]_vars

\* the live towers and the positions of the pending builds in the queue
TowerIds(g) == {SlotMap_keys(g.towers)[i] : i \in DOMAIN SlotMap_keys(g.towers)}

\* the towers and the pending builds on cell (x, y)
TowersOn(g, x, y) ==
    {id \in TowerIds(g) : SlotMap_get(g.towers, id).x = x /\ SlotMap_get(g.towers, id).y = y}
BuildsOn(g, x, y) ==
    {i \in DOMAIN g.build_queue : g.build_queue[i].x = x /\ g.build_queue[i].y = y}

\* C37: between ticks every live tower has hp > 0 and stands on a cell that is
\* Tower(its id), every pending build is on a cell that is Building, every cell that
\* is not Empty holds exactly one tower or pending build and an Empty one holds none,
\* so towers and pending builds are on pairwise distinct cells
C37_OneEntityPerCell ==
    /\ \A id \in TowerIds(host.game) :
          /\ SlotMap_get(host.game.towers, id).hp > 0
          /\ Grid_get(host.game.grid, SlotMap_get(host.game.towers, id).x,
                      SlotMap_get(host.game.towers, id).y) = Tower(id)
    /\ \A i \in DOMAIN host.game.build_queue :
          Grid_get(host.game.grid, host.game.build_queue[i].x, host.game.build_queue[i].y)
             = Building
    /\ \A x \in 0..(GridWidth - 1), y \in 0..(GridHeight - 1) :
          Cardinality(TowersOn(host.game, x, y)) + Cardinality(BuildsOn(host.game, x, y))
             = (IF Grid_get(host.game.grid, x, y) = Empty THEN 0 ELSE 1)

\* the mobs have brought a tower down, its cell is Empty again, and a build is pending
\* on another cell
C37_Witness ==
    /\ host.game.build_queue # << >>
    /\ host.game.towers.free # << >>
    /\ \E e \in Held : /\ e.event.type = "TowerDestroyed"
                       /\ Grid_get(host.game.grid, e.event.x, e.event.y) = Empty

\* ------------------------------------------- C38: when a build becomes a tower
BuildTicks(g) == TdConfig_duration_to_ticks(g.config, g.config.build_time)

OfType(ev, type) == SelectSeq(ev, LAMBDA e : e.type = type)

\* C38: a PlaceTower accepted in the step of tick t is queued for t + build_time_ticks
\* and its cell is blocked when the mobs of that step move; the builds that become
\* towers in a step are the first of the queue, in its order, and are those due at
\* that very tick, so that between ticks no queued build is due or overdue; in the move
\* phase of that step the cell is Tower(id), the distance field is the one of the grid
\* with the new tower on it, and the tower is ready to fire
C38_BuildTiming ==
    /\ [](\A i \in DOMAIN host.game.build_queue :
             /\ host.game.build_queue[i].complete_tick > host.current_tick
             /\ host.game.build_queue[i].complete_tick
                   <= host.current_tick + BuildTicks(host.game)
             /\ Grid_is_blocked_idx(host.game.grid,
                   Grid_idx(host.game.grid, host.game.build_queue[i].x,
                            host.game.build_queue[i].y))
             /\ \A j \in 1..(i - 1) : host.game.build_queue[j].complete_tick
                                         <= host.game.build_queue[i].complete_tick)
    /\ [][Stepped1 =>
             \E tick \in {host'.current_tick} :
             \E before \in {BeforeMove(host.game, tick, stepLog'[tick])} :
             \E placed \in {OfType(before.ev, "TowerPlaced")} :
             \E queued \in {OfType(before.ev, "BuildQueued")} :
                /\ Len(placed) <= Len(host.game.build_queue)
                /\ \A k \in DOMAIN placed :
                      /\ host.game.build_queue[k].complete_tick = tick
                      /\ host.game.build_queue[k].x = placed[k].x
                      /\ host.game.build_queue[k].y = placed[k].y
                      /\ Grid_get(before.st.grid, placed[k].x, placed[k].y) = Tower(placed[k].id)
                      /\ SlotMap_get(before.st.towers, placed[k].id).next_fire_tick = tick
                /\ placed # << >> =>
                      before.st.dist = compute_distance_field(before.st.grid,
                                                              before.st.config.goal)
                /\ before.st.build_queue
                      = SubSeq(host.game.build_queue, Len(placed) + 1,
                               Len(host.game.build_queue))
                        \o [k \in DOMAIN queued |->
                               [x |-> queued[k].x, y |-> queued[k].y, kind |-> queued[k].kind,
                                complete_tick |-> tick + BuildTicks(host.game),
                                player_id |-> before.st.build_queue[
                                    Len(host.game.build_queue) - Len(placed) + k].player_id]]
                /\ host'.game.build_queue = before.st.build_queue
                /\ \A k \in DOMAIN queued :
                      Grid_get(before.st.grid, queued[k].x, queued[k].y) = Building]_vars

\* a tower was placed in the last step, two ticks after its PlaceTower, and has fired
\* in that step
C38_Witness ==
    \E e \in Held :
       /\ e.event.type = "TowerPlaced"
       /\ e.tick = host.current_tick
       /\ SlotMap_contains(host.game.towers, e.event.id)
       /\ SlotMap_get(host.game.towers, e.event.id).next_fire_tick > host.current_tick
       /\ \E i \in DOMAIN submitted :
             /\ submitted[i].payload = PlaceTower(e.event.x, e.event.y)
             /\ submitted[i].scheduled_tick + BuildTicks(host.game) = host.current_tick

\* ------------------------------------------- C39: the waves
\* pauses of two ticks; one wave, which is survived, and two waves, the second of which
\* is lost
WaveConfigs ==
    {[TdConfig_small(26, 8, 1, 500) EXCEPT !.inter_wave_pause = 1000],
     [TdConfig_small(26, 10, 2, 500) EXCEPT !.inter_wave_pause = 1000]}

InitWave ==
    /\ \E config \in WaveConfigs : host = [Host_new(Target) EXCEPT !.game = TdGame_new(config)]
    /\ calc = NoCalc
    /\ InitRest(EventCapacity)
    /\ required_players = 1

\* a tower next to the spawn, which kills mobs, or none
WaveSubmissions == {<< PlaceTower(1, 0), 0 >>, << PlaceTower(1, 1), 1 >>}

NextWave ==
    \/ join_player
    \/ TdSubmit(WaveSubmissions)
    \/ DriverFire

SpecWave == InitWave /\ [][NextWave]_vars

MobCount(g) == Len(SlotMap_keys(g.mobs))

\* what the step of tick does to a game g that pauses, seen when the wave update of the
\* step is over (before) and by the wave events wev of the step
PauseStep(g, tick, before, wev) ==
    IF tick >= g.phase.until_tick /\ g.current_wave < g.config.waves_total
    THEN /\ wev = << [type |-> "WaveStarted", wave |-> g.current_wave + 1] >>
         /\ before.current_wave = g.current_wave + 1
         /\ before.phase = InWave(0, TdConfig_wave_size(g.config, g.current_wave + 1,
                                                         g.config.player_count), tick)
         /\ before.mobs = g.mobs
         /\ before.gold <= g.gold
    ELSE /\ wev = << >>
         /\ before.current_wave = g.current_wave
         /\ before.phase = g.phase
         /\ before.mobs = g.mobs
         /\ before.gold <= g.gold

\* the same for a game g that is in a wave
WaveStep(g, tick, before, wev, spent) ==
    /\ before.current_wave = g.current_wave
    /\ IF wev = << >>
       THEN /\ before.phase.phase = "InWave"
            /\ before.phase.wave_size = g.phase.wave_size
            /\ before.phase.spawned - g.phase.spawned = MobCount(before) - MobCount(g)
            /\ before.phase.spawned - g.phase.spawned \in {0, 1}
            /\ before.phase.spawned <= g.phase.wave_size
            /\ before.phase.spawned < g.phase.wave_size \/ MobCount(before) > 0
            /\ before.gold = g.gold - spent
       ELSE /\ wev = << [type |-> "WaveEnded", wave |-> g.current_wave] >>
            /\ g.phase.spawned = g.phase.wave_size
            /\ MobCount(g) = 0
            /\ MobCount(before) = 0
            /\ before.phase = Pause(tick + TdConfig_duration_to_ticks(g.config,
                                               g.config.inter_wave_pause))
            /\ before.gold = g.gold - spent
                  + TdConfig_gold_per_wave(g.config, g.current_wave, g.config.player_count)

\* C39: current_wave is between 0 and waves_total and a wave never has more mobs
\* spawned than its size; a pause ends, with WaveStarted of the next wave number, in
\* the first step at or after until_tick and in no step before, a wave ends, with one
\* WaveEnded of its number and one award of gold_per_wave, in the first step that finds
\* all its mobs spawned and none left, and sets until_tick to inter_wave_pause_ticks
\* after that tick; one mob at most is spawned per step and counted
C39_WaveMachine ==
    /\ [](/\ host.game.current_wave \in 0..host.game.config.waves_total
          /\ host.game.phase.phase = "InWave" =>
                /\ host.game.current_wave >= 1
                /\ host.game.phase.spawned <= host.game.phase.wave_size
                /\ host.game.phase.wave_size
                      = TdConfig_wave_size(host.game.config, host.game.current_wave,
                                           host.game.config.player_count)
          /\ host.game.current_wave = 0 =>
                /\ host.game.phase.phase = "Pause"
                /\ MobCount(host.game) = 0
                /\ host.game.leaks = 0)
    /\ [][Stepped1 =>
             \E tick \in {host'.current_tick} :
             \E r \in {BeforeMove(host.game, tick, stepLog'[tick])} :
                /\ host'.game.phase = r.st.phase
                /\ host'.game.current_wave = r.st.current_wave
                /\ IF host.game.phase.phase = "Pause"
                   THEN PauseStep(host.game, tick, r.st,
                                  SelectSeq(r.ev, LAMBDA e : e.type \in {"WaveStarted", "WaveEnded"}))
                   ELSE WaveStep(host.game, tick, r.st,
                                 SelectSeq(r.ev, LAMBDA e : e.type \in {"WaveStarted", "WaveEnded"}),
                                 host.game.gold
                                    - BeforeAction(host.game, tick, stepLog'[tick],
                                                   Len(stepLog'[tick]) + 1).gold)]_vars

\* the second wave has begun: the first ended with all its mobs spawned and gone, some
\* of them killed by the tower, and its award was paid once
C39_Witness ==
    /\ host.game.current_wave = 2
    /\ host.game.phase.phase = "InWave"
    /\ host.game.phase.spawned >= 1
    /\ host.game.leaks < TdConfig_wave_size(host.game.config, 1, 1)
    /\ ~SlotMap_is_empty(host.game.towers)

\* ------------------------------------------- C40: when a mob attacks and how it walks
\* builds of one tick; the gold pays for a tower and a second build
FrontConfigs == {TdConfig_small(12, 4, 1, 500)}

InitFront ==
    /\ \E config \in FrontConfigs : host = [Host_new(Target) EXCEPT !.game = TdGame_new(config)]
    /\ calc = NoCalc
    /\ InitRest(EventCapacity)
    /\ required_players = 1

\* a tower next to the spawn at once, and one on the cell below it, or on the goal, when
\* mobs are on their way
FrontSubmissions ==
    {<< PlaceTower(1, 0), 0 >>, << PlaceTower(1, 1), 2 >>, << PlaceTower(1, 1), 3 >>,
     << PlaceTower(GridWidth - 1, GridHeight - 1), 3 >>}

NextFront ==
    \/ join_player
    \/ TdSubmit(FrontSubmissions)
    \/ DriverFire

SpecFront == InitFront /\ [][NextFront]_vars

\* what move_mob does with mob id of state st at tick: the distance of its cell, the
\* neighbour the gradient loop picks, and the result
MobTurn(st, id, tick) ==
    LET turn(mob) ==
            LET seen(r) ==
                    [at |-> << mob.x, mob.y >>,
                     dist |-> st.dist[Grid_idx(st.grid, mob.x, mob.y)],
                     can_move |-> tick >= mob.next_move_tick,
                     best |-> BestNeighbor(st, mob.x, mob.y, 1,
                                           st.dist[Grid_idx(st.grid, mob.x, mob.y)], << >>),
                     result |-> r.result,
                     to |-> << SlotMap_get(r.st.mobs, id).x, SlotMap_get(r.st.mobs, id).y >>]
            IN Then(move_mob(st, id, tick >= mob.next_move_tick), seen)
    IN Then(SlotMap_get(st.mobs, id), turn)

MobTurns(st, tick) ==
    {MobTurn(st, SlotMap_keys(st.mobs)[i], tick) : i \in DOMAIN SlotMap_keys(st.mobs)}

\* C40: in the move phase of every step a mob attacks a tower only from a cell whose
\* distance is MAX, and a mob on a cell of finite distance other than the goal has a
\* legal neighbour of lower distance and, when it may move, moves there and nowhere else
C40_AttackOnlyWhenUnreachable ==
    [][Stepped1 =>
          \E tick \in {host'.current_tick} :
          \E before \in {BeforeMove(host.game, tick, stepLog'[tick]).st} :
             \A m \in MobTurns(before, tick) :
                /\ (m.result.kind = "AttackTower" /\ m.result.tower # NoTower)
                      => m.dist = DistMax
                /\ (m.dist # DistMax /\ m.at # before.config.goal) =>
                      /\ m.best # << >>
                      /\ before.dist[Grid_idx(before.grid, m.best[1], m.best[2])] < m.dist
                      /\ m.can_move => m.result = Moved /\ m.to = m.best]_vars

\* ------------------------------------------- C32: the locks
\* the facade calls on a match, which take the read side of the registry lock and then
\* the match mutex
MatchCalls == {"spectate_match", "join_match", "leave_match", "submit_action", "observe",
               "poll_events"}

\* what a client holds the read side for: one of MatchCalls, the three reads of
\* list_matches, or the lookup of observe_next
MutexCalls == {"match_call", "list_status", "list_tick", "list_count"}
ClientCalls == {"match_call", "list_status", "observe_next"}

\* every variable but locks and api
LockRest == << mgrVars, shutdown, driver, callVars, histVars, registry, admin, creator,
               reader, calc >>

\* the tasks that call the server: the calls each client makes, and whether a task
\* creates a match
Programs ==
    {[calls |-> (1 :> {"join_match", "observe"}) @@ (2 :> {"observe_next"}),
      creates |-> FALSE],
     [calls |-> (1 :> MatchCalls) @@ (2 :> {}), creates |-> FALSE],
     [calls |-> (1 :> {"join_match"}) @@ (2 :> {"list_matches"}), creates |-> FALSE],
     [calls |-> (1 :> {"join_match"}) @@ (2 :> {}), creates |-> TRUE]}

Started == locks.creates \/ \E c \in Callers : locks.calls[c] # {}

\* the tasks are spawned
ClientsStart(program) ==
    /\ ~Started
    /\ locks' = [locks EXCEPT !.calls = program.calls, !.creates = program.creates]
    /\ UNCHANGED << LockRest, api >>

\* a spectator and a player come once; the player submits, observes, polls and leaves
Callable ==
    (IF spectators = {} THEN {"spectate_match"} ELSE {})
       \cup (IF host.next_player_id = 0 THEN {"join_match"} ELSE {})
       \cup (IF DOMAIN sessions # {}
             THEN {"leave_match", "submit_action", "observe", "poll_events"} ELSE {})

\* a client calls the facade: matches.read() is awaited
ClientCall(c, op) ==
    /\ CASE op = "match_call" -> locks.calls[c] \cap Callable # {}
         [] op = "list_status" -> "list_matches" \in locks.calls[c]
         [] op = "observe_next" -> "observe_next" \in locks.calls[c] /\ next_session_id > 1
    /\ pc[c] = "idle"
    /\ locks.ask[c] = "none" /\ locks.read[c] = "none" /\ locks.mutex # Holder(c)
    /\ locks' = [locks EXCEPT !.ask[c] = op]
    /\ UNCHANGED << LockRest, api >>

\* the read side is granted: no writer holds the lock or is queued for it
AcquireRead(c) ==
    /\ locks.ask[c] # "none"
    /\ locks.writer = "none" /\ locks.queued = "none"
    /\ locks' = [locks EXCEPT !.read[c] = locks.ask[c], !.ask[c] = "none"]
    /\ UNCHANGED << LockRest, api >>

\* inner.lock() is granted to a client: in a facade call on a match that is in the map,
\* or in the loop of observe_next
AcquireMutex(c) ==
    /\ locks.mutex = Free
    /\ \/ locks.read[c] \in MutexCalls /\ TheMatch \in registry.matches
       \/ pc[c] \in {"check", "clear"}
    /\ locks' = [locks EXCEPT !.mutex = Holder(c)]
    /\ UNCHANGED << LockRest, api >>

\* list_matches: status(), current_tick() and player_count() of the entry, each under
\* the mutex, all under the read side
ListStep(c) ==
    /\ locks.read[c] \in {"list_status", "list_tick", "list_count"}
    /\ IF locks.read[c] = "list_count"
       THEN /\ locks' = Dropped(locks)
            /\ api' = Api("list_matches", 0, "Ok")
       ELSE /\ locks' = [locks EXCEPT !.mutex = Free,
                                      !.read[c] = IF @ = "list_status" THEN "list_tick"
                                                  ELSE "list_count"]
            /\ UNCHANGED api
    /\ UNCHANGED LockRest

\* the section of a facade call on the match under the mutex
MatchCall(c) ==
    \/ /\ "spectate_match" \in locks.calls[c]
       /\ spectators = {} /\ spectate_match(TheMatch)
    \/ /\ "join_match" \in locks.calls[c]
       /\ host.next_player_id = 0 /\ join_match(TheMatch)
    \/ \E session \in DOMAIN sessions :
          \/ "leave_match" \in locks.calls[c] /\ leave_match(TheMatch, session)
          \/ "submit_action" \in locks.calls[c] /\ SubmitNow(session)
          \/ "observe" \in locks.calls[c] /\ Server_observe(TheMatch, session)
          \/ "poll_events" \in locks.calls[c] /\ Server_poll_events(TheMatch, session)

\* the section of a client call under the mutex
ClientWork(c) ==
    /\ locks.mutex = Holder(c)
    /\ \/ locks.read[c] = "match_call" /\ MatchCall(c)
       \/ ListStep(c)
       \/ pc[c] = "check" /\ ON_Check(c)
       \/ pc[c] = "clear" /\ ON_ClearWaiting(c)

\* the match is not in the map: the call returns under the read side alone
ClientNotFound(c) ==
    /\ locks.read[c] \in MutexCalls
    /\ locks.mutex # Holder(c)
    /\ TheMatch \notin registry.matches
    /\ locks' = [locks EXCEPT !.read[c] = "none"]
    /\ IF locks.read[c] = "match_call"
       THEN \E op \in MatchCalls \cap locks.calls[c] : api' = Api(op, TheMatch, "NotFound")
       ELSE api' = Api("list_matches", 0, "Ok")
    /\ UNCHANGED LockRest

\* observe_next: the handle is cloned, the read side is dropped and the loop is entered
ClientEnter(c) ==
    /\ locks.read[c] = "observe_next"
    /\ Server_observe_next(c, TheMatch, 1, DecisionStride)

\* terminate_match or shutdown is called: matches.write() is awaited
AdminBegin(op) ==
    /\ Started
    /\ admin.pc = "idle"
    /\ locks.writer = "none" /\ locks.queued = "none"
    /\ locks' = [locks EXCEPT !.queued = op]
    /\ UNCHANGED << LockRest, api >>

\* the write side is granted when no reader is left
AcquireWrite ==
    /\ locks.queued # "none"
    /\ \A c \in Callers : locks.read[c] = "none"
    /\ locks' = [locks EXCEPT !.writer = locks.queued, !.queued = "none"]
    /\ UNCHANGED << LockRest, api >>

\* terminate_match: inner.lock() of terminate() is granted under the write side
AdminMutex ==
    /\ locks.writer = "terminate_match" /\ admin.pc = "idle"
    /\ TheMatch \in registry.matches
    /\ locks.mutex = Free
    /\ locks' = [locks EXCEPT !.mutex = AdminCall]
    /\ UNCHANGED << LockRest, api >>

\* the body of terminate_match and of shutdown under the write side
AdminWork ==
    /\ admin.pc = "idle"
    /\ \/ /\ locks.writer = "terminate_match"
          /\ TheMatch \in registry.matches => locks.mutex = AdminCall
          /\ terminate_match(TheMatch)
       \/ /\ locks.writer = "shutdown"
          /\ GameServer_shutdown

\* the tick loop: inner.lock() of step_one_tick is granted
DriverMutex ==
    /\ driver = "stepping"
    /\ locks.mutex = Free
    /\ locks' = [locks EXCEPT !.mutex = DriverTask]
    /\ UNCHANGED << LockRest, api >>

DriverWork == locks.mutex = DriverTask /\ DriverStep

\* create_match, once: the size test under the read side, the insert under the write
\* side
CreateWork(k) ==
    /\ locks.creates
    /\ locks.writer = "none"
    /\ \/ /\ locks.queued = "none"
          /\ registry.next_match_id = TheMatch + 1
          /\ CreateCheck(k)
       \/ /\ \A c \in Callers : locks.read[c] = "none"
          /\ CreateInsert(k)

NextLock ==
    \/ \E program \in Programs : ClientsStart(program)
    \/ \E c \in Callers, op \in ClientCalls : ClientCall(c, op)
    \/ \E c \in Callers : AcquireRead(c)
    \/ \E c \in Callers : AcquireMutex(c)
    \/ \E c \in Callers : ClientWork(c)
    \/ \E c \in Callers : ClientNotFound(c)
    \/ \E c \in Callers : ClientEnter(c)
    \/ \E c \in Callers : ON_Suspend(c)
    \/ \E c \in Callers : ON_Notified(c)
    \/ \E c \in Callers : ON_WaitTimeout(c)
    \/ \E op \in {"terminate_match", "shutdown"} : AdminBegin(op)
    \/ AcquireWrite
    \/ AdminMutex
    \/ AdminWork
    \/ AdminReturn
    \/ DriverWake
    \/ DriverMutex
    \/ DriverWork
    \/ CreateWork(1)

\* tokio grants its locks in the order of the requests, so a request that can be
\* granted again and again is granted; a task that can run does run; the timer of
\* a suspended observe_next expires
LockFair ==
    /\ \A c \in Callers : /\ SF_vars(AcquireRead(c))
                          /\ SF_vars(AcquireMutex(c))
                          /\ WF_vars(ClientWork(c))
                          /\ WF_vars(ClientNotFound(c))
                          /\ WF_vars(ClientEnter(c))
                          /\ WF_vars(ON_Suspend(c))
                          /\ WF_vars(ON_WaitTimeout(c))
    /\ SF_vars(AcquireWrite)
    /\ SF_vars(AdminMutex)
    /\ WF_vars(AdminWork)
    /\ WF_vars(AdminReturn)
    /\ WF_vars(DriverWake)
    /\ SF_vars(DriverMutex)
    /\ WF_vars(DriverWork)
    /\ SF_vars(CreateWork(1))

\* a match that waits for more players than come: the tick loop runs and steps nothing
SpecLock == InitDet /\ [][NextLock]_vars /\ LockFair

\* caller c waits for a lock or holds one in a call that is not suspended
Busy(c) == locks.ask[c] # "none" \/ locks.read[c] # "none" \/ pc[c] \in {"check", "clear"}

\* C32: a call that is not suspended in observe_next gets its locks and leaves them: a
\* facade call that waits for the read side gets it and returns, a section of
\* observe_next under the mutex ends, terminate_match and shutdown get the write side
\* and return, a create_match that has spawned its task inserts it; and a call
\* suspended in observe_next holds neither the read side nor the mutex
C32_NoDeadlock ==
    /\ [](\A c \in Callers :
             pc[c] \in {"prewait", "waiting"} =>
                locks.read[c] = "none" /\ locks.ask[c] = "none" /\ locks.mutex # Holder(c))
    /\ \A c \in Callers : Busy(c) ~> ~Busy(c)
    /\ (locks.queued # "none" \/ locks.writer # "none")
          ~> (locks.queued = "none" /\ locks.writer = "none" /\ admin.pc = "idle")
    /\ (creator[1].pc = "spawned") ~> (creator[1].pc = "idle")

\* terminate_match waits for the write side while one client holds the read side and
\* waits for the mutex, which the tick loop holds, and the other is suspended in
\* observe_next
C32_Witness ==
    /\ locks.queued = "terminate_match"
    /\ locks.mutex = DriverTask
    /\ \E c, d \in Callers : /\ locks.read[c] \in MutexCalls
                             /\ pc[d] = "waiting"

=============================================================================
